---------------------------- MODULE Spec2Model ----------------------------
(***************************************************************************)
(* A model of the text chunker of research-agent (src/pdf_extractor.py,    *)
(* chunk_text) and of the two places that cut an oversized paper text down *)
(* to its first chunk before it is embedded in an analysis prompt          *)
(* (src/agent.py analyze_single_paper, src/web_app.py run_analysis).       *)
(*                                                                         *)
(* A Python str is modelled by its length and the set of 0-based indices   *)
(* that hold a newline character; every other character is the same       *)
(* letter.  The only character chunk_text looks at is the newline.         *)
(***************************************************************************)
EXTENDS Integers, Sequences, FiniteSets

(***************************************************************************)
(* Bounds of the model.                                                    *)
(***************************************************************************)
\* longest text handed to chunk_text in the chunker specification
MaxLen == 7
\* largest chunk_size argument
MaxChunkSize == 5
\* largest overlap argument (reaches and exceeds chunk_size)
MaxOverlap == 5
\* the loop of chunk_text is followed for at most this many appended chunks
MaxChunks == 9
\* paper texts are up to this many characters shorter or longer than
\* MAX_TEXT_LENGTH
MaxExcess == 2
\* paper texts are also 0 .. MaxWindows times CHUNK_SIZE characters long
MaxWindows == 4
\* newlines of a paper text sit at up to this many offsets from each edge of
\* the range in which the first window looks for a paragraph break
MaxSpot == 3
\* most PDF files handed to one run of the command line
MaxPdfs == 3
\* most calls that save a paper in one history of the store
MaxCalls == 4
\* most citations in the list given to batch_enrich_citations
MaxCites == 3
\* most pieces a text given to extract_citations_from_text is made of
MaxPieces == 3
\* most entries the references section is split into
MaxEntries == 2
\* most blocks on the page given to _extract_tables_from_page
MaxPageBlocks == 3
\* most text blocks in the document given to _extract_paper_metadata
MaxBlocks == 2
\* most spans in the block given to _get_dominant_font_size
MaxSpans == 3
\* most tables of the paper given to format_paper_for_analysis
MaxTables == 11
\* most calls of format_paper_for_analysis with one paper
MaxFormats == 2
\* largest max_per_hour given to check_rate_limit
MaxPerHour == 2
\* most calls of check_rate_limit
MaxChecks == 4
\* request threads that can be inside check_rate_limit at once
MaxRateThreads == 2
\* the minutes the clock advances in one step, and the last minute
ClockStep == 30
MaxMinutes == 90
\* most uploads the web server accepts, and the last second of its clock
MaxUploads == 2
MaxSeconds == 1
\* upload threads that can be inside save_paper at once
MaxSaveThreads == 2

(***************************************************************************)
(* Constants of the program.                                               *)
(***************************************************************************)
MAX_TEXT_LENGTH == 100000
CHUNK_SIZE == 30000
\* the literal chunk size of run_analysis
WEB_CHUNK_SIZE == 30000
\* the default of chunk_text's parameter overlap
DEFAULT_OVERLAP == 2000
\* len("\n\n[Note: This is a long paper. Showing first ")
CliNoteHead == 45
\* len("\n\n[Note: Long paper truncated. Showing ")
WebNoteHead == 39
\* len(" of ")
NoteMid == 4
\* len(" characters.]")
NoteTail == 13
\* agent.py line 91, web_app.py line 111: max_enrichments=10
MAX_ENRICHMENTS == 10
\* pdf_extractor.py line 237: len(entry) > 20
MIN_REFERENCE_LENGTH == 20
\* line 238: entry[:500]
MAX_REFERENCE_CHARS == 500
\* line 241: references[:100]
MAX_REFERENCES == 100
\* line 146: round(y_center / 10) * 10
ROW_HEIGHT == 10
\* line 154: len(row_blocks) >= 3
MIN_ROW_BLOCKS == 3
\* line 215: abstract_match.group(1).strip()[:2000]
MAX_ABSTRACT_CHARS == 2000
\* line 123: ... if sizes else 12
DEFAULT_FONT_SIZE == 12
\* line 368: paper.tables[:10]
MAX_TABLE_ROWS == 10
\* line 369: table['content'][:200]
MAX_TABLE_CONTENT == 200

(***************************************************************************)
(* Python strings.                                                         *)
(***************************************************************************)
EmptyStr == [len |-> 0, nl |-> {}]

StrLen(s) == s.len

SetMax(S) == CHOOSE m \in S : \A x \in S : x <= m

\* How Python turns a slice bound into an offset of a string of length n:
\* a negative bound counts from the end, and the result is clamped to 0..n.
AdjustIndex(i, n) ==
    IF i < 0 THEN (IF i + n < 0 THEN 0 ELSE i + n)
    ELSE IF i > n THEN n ELSE i

\* s[a:b]
Slice(s, a, b) ==
    LET lo == AdjustIndex(a, s.len)
        hi == AdjustIndex(b, s.len)
    IN  IF hi <= lo THEN EmptyStr
        ELSE [len |-> hi - lo,
              nl  |-> {i - lo : i \in {j \in s.nl : lo <= j /\ j < hi}}]

\* s.rfind('\n\n', a, b): the highest index i with a <= i, i + 2 <= b and
\* s[i] = s[i+1] = newline, the bounds adjusted as for a slice; -1 if none.
Rfind(s, a, b) ==
    LET lo   == AdjustIndex(a, s.len)
        hi   == AdjustIndex(b, s.len)
        hits == {i \in s.nl : (i + 1) \in s.nl /\ lo <= i /\ i + 2 <= hi}
    IN  IF hits = {} THEN -1 ELSE SetMax(hits)

\* s + t
Concat(s, t) ==
    [len |-> s.len + t.len, nl |-> s.nl \cup {i + s.len : i \in t.nl}]

(***************************************************************************)
(* chunk_text, statement by statement.                                     *)
(***************************************************************************)
\* line 311: if len(text) <= chunk_size
SingleChunk_strict(n, size) == n < size
SingleChunk(n, size) == n <= size

\* line 317: while start < len(text)
LoopCond_short(s, n) == s < n - 1
LoopCond(s, n) == s < n

\* line 318: end = start + chunk_size
WindowEnd(s, size) == s + size

\* line 321: if end < len(text)
LooksForBreak(e, n) == e < n

\* line 323: break_point = text.rfind('\n\n', start + chunk_size - overlap, end)
BreakPoint(t, s, size, k, e) == Rfind(t, s + size - k, e)

\* line 324: if break_point > start
Shrinks(bp, s) == bp > s

\* lines 318-325: the end of the window that starts at s
ChosenEnd(t, s, size, k) ==
    LET e  == WindowEnd(s, size)
        bp == BreakPoint(t, s, size, k, e)
    IN  IF LooksForBreak(e, StrLen(t)) /\ Shrinks(bp, s) THEN bp ELSE e

\* lines 321-325: whether the window that starts at s is cut at a break
IsShrunk(t, s, size, k) ==
    LET e == WindowEnd(s, size)
    IN  LooksForBreak(e, StrLen(t)) /\ Shrinks(BreakPoint(t, s, size, k, e), s)

\* line 327: text[start:end]
Emit_short(t, s, e) == Slice(t, s, e - 1)
Emit(t, s, e) == Slice(t, s, e)

\* line 328: start = end - overlap
NextStart_skip(e, k) == e - k + 1
NextStart(e, k) == e - k

\* lines 317-330 as a function of the loop's state: the chunks appended from
\* start s on, after those of acc
RECURSIVE ChunkLoop(_, _, _, _, _)
ChunkLoop(t, size, k, s, acc) ==
    IF ~LoopCond(s, StrLen(t)) THEN acc
    ELSE LET e == ChosenEnd(t, s, size, k)
         IN  ChunkLoop(t, size, k, NextStart(e, k), Append(acc, Emit(t, s, e)))

\* chunk_text(text, chunk_size, overlap), lines 299-330
chunk_text(t, size, k) ==
    IF SingleChunk(StrLen(t), size) THEN <<t>> ELSE ChunkLoop(t, size, k, 0, <<>>)

(***************************************************************************)
(* The text embedded in an analysis prompt.                                *)
(***************************************************************************)
\* the number of decimal digits of n >= 0
RECURSIVE Digits(_)
Digits(n) == IF n < 10 THEN 1 ELSE 1 + Digits(n \div 10)

\* len(f"{n:,}"): the digits and a comma before every group of three
CommaLen(n) == Digits(n) + ((Digits(n) - 1) \div 3)

\* the note appended to the first chunk: it opens with two newlines
NoteText(head, shown, total) ==
    [len |-> head + CommaLen(shown) + NoteMid + CommaLen(total) + NoteTail,
     nl  |-> {0, 1}]

\* agent.py line 153, web_app.py line 134: chunks[0]
FirstChunk_last(cs) == cs[Len(cs)]
FirstChunk(cs) == cs[1]

\* agent.py line 150, web_app.py line 132: if len(text) > MAX_TEXT_LENGTH
TooLong(t) == StrLen(t) > MAX_TEXT_LENGTH

VARIABLES
    text,        \* argument text
    chunk_size,  \* argument chunk_size
    overlap,     \* argument overlap
    start,       \* local start
    chunks,      \* local chunks, the list that is returned
    windows,     \* for each appended chunk, the start and end it was cut with
    pc,          \* "entry", "loop" or "done" (returned); "idle": no call
    paper_text,  \* the paper text handed to the analysis
    embedded,    \* the text put into full_prompt
    notes,       \* the N and M of each note appended to embedded
    site,        \* which function built the prompt: "cli" or "web"
    ppc,         \* "ready" or "built"; "idle": no analysis
    pdfs,            \* main: the PDF files of the run, in the order they are taken
    run_mode,        \* main: "analyze", "batch" or "compare"
    next_pdf,        \* the position in pdfs of the file the loop takes next
    attempted,       \* the positions for which process_pdf was called
    processed,       \* the positions whose loop body ran to its end
    reported,        \* the errors main printed
    run_state,       \* "running", "finished" or "aborted"; "idle": no run
    papers,          \* database: the rows of table papers, in insertion order
    citation_rows,   \* database: the rows of table citations
    last_call,       \* the last call that saved a paper: what it was given and returned
    calls,           \* the number of calls made so far
    pdf_results,     \* the dicts the calls of process_pdf returned, in order
    save_threads,    \* per upload thread, where its save_paper call stands
    citations,       \* batch_enrich_citations: the list it is given
    max_enrichments, \* batch_enrich_citations: the parameter of that name
    enriched,        \* batch_enrich_citations: the list it builds
    outcomes,        \* per citation taken, what its lookups met on the network
    saved,           \* the citations handed to save_citations
    epc,             \* "loop", "returned", "saved" or "raised"; "idle": no enrichment
    src_text,        \* extract_citations_from_text: the text, one character per element
    cit_once,        \* what extract_citations_from_text(text) returned
    cit_twice,       \* what extract_citations_from_text(text + text) returned
    xpc,             \* "ready", "once" or "twice"; "idle": no extraction
    ref_entries,     \* _extract_references: the entries re.split returned
    references,      \* _extract_references: the list it builds
    ref_next,        \* the position in ref_entries of the entry the loop takes next
    rpc,             \* "loop" or "returned"; "idle": no call
    page_blocks,     \* _extract_tables_from_page: the blocks of the page, in order
    rows,            \* the dict rows: per y_key, in insertion order, its blocks
    row_next,        \* the position in rows of the bucket the loop takes next
    tables,          \* _extract_tables_from_page: the list it builds
    tpc,             \* "group", "detect" or "returned"; "idle": no call
    all_blocks,      \* extract_pdf: all_blocks, the text blocks of the document in order
    result_text,     \* ExtractedPaper.text, one character per element
    title,           \* ExtractedPaper.title
    authors,         \* ExtractedPaper.authors
    abstract,        \* ExtractedPaper.abstract
    mpc,             \* "extracted" or "inferred"; "idle": no call
    sizes,           \* _get_dominant_font_size: the sizes of the spans of the block, in order
    dominant,        \* what _get_dominant_font_size returned; 0: nothing yet
    fpc,             \* "collected" or "returned"; "idle": no call
    fm_paper,        \* format_paper_for_analysis: the ExtractedPaper it is given; <<>>: none
    formatted,       \* what the calls of format_paper_for_analysis(fm_paper) returned, in order
    rate_limits,     \* database: the rows of table rate_limits, in insertion order
    now,             \* datetime.now(), in minutes
    max_per_hour,    \* check_rate_limit: the parameter of that name; 0: no caller
    rl_thread,       \* per request thread, where its check_rate_limit call stands
    rl_returns,      \* what the calls of check_rate_limit returned, in order
    active_analyses, \* web_app: the dict active_analyses, per analysis_id its entry
    analyses,        \* database: the rows of table analyses, per analysis_id (UNIQUE)
    upload_dir,      \* UPLOAD_DIR: per file name, the upload whose bytes the file holds
    web_threads,     \* the threads upload started, in order: what each was given and where it stands
    web_second       \* datetime.now(), in seconds; -1: no server

chunker_vars == <<text, chunk_size, overlap, start, chunks, windows, pc>>
prompt_vars == <<paper_text, embedded, notes, site, ppc>>
batch_vars == <<pdfs, run_mode, next_pdf, attempted, processed, reported,
                run_state>>
store_vars == <<papers, citation_rows, last_call, calls, pdf_results,
                save_threads>>
enrich_vars == <<citations, max_enrichments, enriched, outcomes, saved, epc>>
cite_vars == <<src_text, cit_once, cit_twice, xpc>>
refs_vars == <<ref_entries, references, ref_next, rpc>>
table_vars == <<page_blocks, rows, row_next, tables, tpc>>
meta_vars == <<all_blocks, result_text, title, authors, abstract, mpc>>
font_vars == <<sizes, dominant, fpc>>
format_vars == <<fm_paper, formatted>>
rate_vars == <<rate_limits, now, max_per_hour, rl_thread, rl_returns>>
web_vars == <<active_analyses, analyses, upload_dir, web_threads, web_second>>
pipeline_vars == <<batch_vars, store_vars, enrich_vars, cite_vars, refs_vars,
                   table_vars, meta_vars, font_vars, format_vars, rate_vars,
                   web_vars>>
vars == <<chunker_vars, prompt_vars, pipeline_vars>>

\* what an action of one part leaves alone: the variables of the other parts
batch_rest == <<chunker_vars, prompt_vars, store_vars, enrich_vars, cite_vars,
                refs_vars, table_vars, meta_vars, font_vars, format_vars,
                rate_vars, web_vars>>
store_rest == <<chunker_vars, prompt_vars, batch_vars, enrich_vars, cite_vars,
                refs_vars, table_vars, meta_vars, font_vars, format_vars,
                rate_vars, web_vars>>
enrich_rest == <<chunker_vars, prompt_vars, batch_vars, store_vars, cite_vars,
                 refs_vars, table_vars, meta_vars, font_vars, format_vars,
                 rate_vars, web_vars>>
cite_rest == <<chunker_vars, prompt_vars, batch_vars, store_vars, enrich_vars,
               refs_vars, table_vars, meta_vars, font_vars, format_vars,
               rate_vars, web_vars>>
refs_rest == <<chunker_vars, prompt_vars, batch_vars, store_vars, enrich_vars,
               cite_vars, table_vars, meta_vars, font_vars, format_vars,
               rate_vars, web_vars>>
table_rest == <<chunker_vars, prompt_vars, batch_vars, store_vars,
                enrich_vars, cite_vars, refs_vars, meta_vars, font_vars,
                format_vars, rate_vars, web_vars>>
meta_rest == <<chunker_vars, prompt_vars, batch_vars, store_vars, enrich_vars,
               cite_vars, refs_vars, table_vars, font_vars, format_vars,
               rate_vars, web_vars>>
font_rest == <<chunker_vars, prompt_vars, batch_vars, store_vars, enrich_vars,
               cite_vars, refs_vars, table_vars, meta_vars, format_vars,
               rate_vars, web_vars>>
format_rest == <<chunker_vars, prompt_vars, batch_vars, store_vars,
                 enrich_vars, cite_vars, refs_vars, table_vars, meta_vars,
                 font_vars, rate_vars, web_vars>>
rate_rest == <<chunker_vars, prompt_vars, batch_vars, store_vars, enrich_vars,
               cite_vars, refs_vars, table_vars, meta_vars, font_vars,
               format_vars, web_vars>>
web_rest == <<chunker_vars, prompt_vars, batch_vars, store_vars, enrich_vars,
              cite_vars, refs_vars, table_vars, meta_vars, font_vars,
              format_vars, rate_vars>>

ChunkerIdle ==
    /\ text = EmptyStr
    /\ chunk_size = 1
    /\ overlap = 0
    /\ start = 0
    /\ chunks = <<>>
    /\ windows = <<>>
    /\ pc = "idle"

PromptIdle ==
    /\ paper_text = EmptyStr
    /\ embedded = EmptyStr
    /\ notes = <<>>
    /\ site = "none"
    /\ ppc = "idle"

BatchIdle ==
    /\ pdfs = <<>>
    /\ run_mode = "none"
    /\ next_pdf = 1
    /\ attempted = {}
    /\ processed = {}
    /\ reported = <<>>
    /\ run_state = "idle"

StoreIdle ==
    /\ papers = <<>>
    /\ citation_rows = <<>>
    /\ last_call = [op |-> "none", file |-> "none", paper_id |-> 0, existed |-> FALSE, before |-> <<>>, raised |-> FALSE]
    /\ calls = 0
    /\ pdf_results = <<>>
    /\ save_threads = <<>>

EnrichIdle ==
    /\ citations = <<>>
    /\ max_enrichments = 0
    /\ enriched = <<>>
    /\ outcomes = <<>>
    /\ saved = <<>>
    /\ epc = "idle"

CiteIdle ==
    /\ src_text = <<>>
    /\ cit_once = <<>>
    /\ cit_twice = <<>>
    /\ xpc = "idle"

RefsIdle ==
    /\ ref_entries = <<>>
    /\ references = <<>>
    /\ ref_next = 1
    /\ rpc = "idle"

TableIdle ==
    /\ page_blocks = <<>>
    /\ rows = <<>>
    /\ row_next = 1
    /\ tables = <<>>
    /\ tpc = "idle"

MetaIdle ==
    /\ all_blocks = <<>>
    /\ result_text = <<>>
    /\ title = <<"None">>
    /\ authors = <<"None">>
    /\ abstract = <<"None">>
    /\ mpc = "idle"

FontIdle ==
    /\ sizes = <<>>
    /\ dominant = 0
    /\ fpc = "idle"

FormatIdle ==
    /\ fm_paper = <<>>
    /\ formatted = <<>>

RateIdle ==
    /\ rate_limits = <<>>
    /\ now = 0
    /\ max_per_hour = 0
    /\ rl_thread = <<>>
    /\ rl_returns = <<>>

WebIdle ==
    /\ active_analyses = <<>>
    /\ analyses = <<>>
    /\ upload_dir = <<>>
    /\ web_threads = <<>>
    /\ web_second = -1

\* every part of the program but part g is at rest
PipelineIdle(g) ==
    /\ IF g = "batch" THEN TRUE ELSE BatchIdle
    /\ IF g = "store" THEN TRUE ELSE StoreIdle
    /\ IF g = "enrich" THEN TRUE ELSE EnrichIdle
    /\ IF g = "cite" THEN TRUE ELSE CiteIdle
    /\ IF g = "refs" THEN TRUE ELSE RefsIdle
    /\ IF g = "table" THEN TRUE ELSE TableIdle
    /\ IF g = "meta" THEN TRUE ELSE MetaIdle
    /\ IF g = "font" THEN TRUE ELSE FontIdle
    /\ IF g = "format" THEN TRUE ELSE FormatIdle
    /\ IF g = "rate" THEN TRUE ELSE RateIdle
    /\ IF g = "web" THEN TRUE ELSE WebIdle

Texts ==
    UNION {{[len |-> L, nl |-> S] : S \in SUBSET (0 .. L - 1)} : L \in 0 .. MaxLen}

Init ==
    /\ text \in Texts
    /\ chunk_size \in 1 .. MaxChunkSize
    /\ overlap \in 0 .. MaxOverlap
    /\ start = 0
    /\ chunks = <<>>
    /\ windows = <<>>
    /\ pc = "entry"
    /\ paper_text = EmptyStr
    /\ embedded = EmptyStr
    /\ notes = <<>>
    /\ site = "none"
    /\ ppc = "idle"
    /\ PipelineIdle("none")

\* lines 311-315
Entry ==
    /\ pc = "entry"
    /\ IF SingleChunk(StrLen(text), chunk_size)
       THEN /\ chunks' = <<text>>
            /\ windows' = <<[start |-> 0, end |-> StrLen(text), shrunk |-> FALSE]>>
            /\ pc' = "done"
       ELSE /\ chunks' = <<>>
            /\ windows' = <<>>
            /\ pc' = "loop"
    /\ start' = 0
    /\ UNCHANGED <<text, chunk_size, overlap, prompt_vars, pipeline_vars>>

\* lines 317-328: one iteration of the loop
LoopIter ==
    /\ pc = "loop"
    /\ LoopCond(start, StrLen(text))
    /\ Len(chunks) < MaxChunks
    /\ LET e == ChosenEnd(text, start, chunk_size, overlap)
       IN  /\ chunks' = Append(chunks, Emit(text, start, e))
           /\ windows' = Append(windows,
                  [start |-> start, end |-> e,
                   shrunk |-> IsShrunk(text, start, chunk_size, overlap)])
           /\ start' = NextStart(e, overlap)
    /\ UNCHANGED <<text, chunk_size, overlap, pc, prompt_vars, pipeline_vars>>

\* lines 317, 330: the loop condition fails and chunks is returned
Return ==
    /\ pc = "loop"
    /\ ~LoopCond(start, StrLen(text))
    /\ pc' = "done"
    /\ UNCHANGED <<text, chunk_size, overlap, start, chunks, windows, prompt_vars, pipeline_vars>>

Next == Entry \/ LoopIter \/ Return

Spec == Init /\ [][Next]_vars

(***************************************************************************)
(* Building the prompt of one analysis.                                    *)
(***************************************************************************)
PromptLens ==
    {MAX_TEXT_LENGTH + d : d \in -MaxExcess .. MaxExcess}
        \cup {CHUNK_SIZE * m : m \in 0 .. MaxWindows}

\* where a paper text may hold a newline: around both edges of the range
\* CHUNK_SIZE - DEFAULT_OVERLAP .. CHUNK_SIZE of the first window
NewlineSpots ==
    {CHUNK_SIZE - DEFAULT_OVERLAP - 1 + d : d \in 0 .. MaxSpot}
        \cup {CHUNK_SIZE - MaxSpot + d : d \in 0 .. MaxSpot}

PaperTexts ==
    {[len |-> L, nl |-> {i \in S : i < L}] : L \in PromptLens, S \in SUBSET NewlineSpots}

InitPrompt ==
    /\ paper_text \in PaperTexts
    /\ embedded = EmptyStr
    /\ notes = <<>>
    /\ site = "none"
    /\ ppc = "ready"
    /\ text = EmptyStr
    /\ chunk_size = 1
    /\ overlap = 0
    /\ start = 0
    /\ chunks = <<>>
    /\ windows = <<>>
    /\ pc = "idle"
    /\ PipelineIdle("none")

\* agent.py lines 149-156, analyze_single_paper
AnalyzeSinglePaper ==
    /\ ppc = "ready"
    /\ IF TooLong(paper_text)
       THEN LET first == FirstChunk(chunk_text(paper_text, CHUNK_SIZE, DEFAULT_OVERLAP))
            IN  /\ embedded' = Concat(first,
                       NoteText(CliNoteHead, StrLen(first), StrLen(paper_text)))
                /\ notes' = <<[shown |-> StrLen(first), total |-> StrLen(paper_text)]>>
       ELSE /\ embedded' = paper_text
            /\ notes' = <<>>
    /\ site' = "cli"
    /\ ppc' = "built"
    /\ UNCHANGED <<paper_text, chunker_vars, pipeline_vars>>

\* web_app.py lines 131-139, run_analysis
RunAnalysis ==
    /\ ppc = "ready"
    /\ IF TooLong(paper_text)
       THEN LET first == FirstChunk(chunk_text(paper_text, WEB_CHUNK_SIZE, DEFAULT_OVERLAP))
            IN  /\ embedded' = Concat(first,
                       NoteText(WebNoteHead, StrLen(first), StrLen(paper_text)))
                /\ notes' = <<[shown |-> StrLen(first), total |-> StrLen(paper_text)]>>
       ELSE /\ embedded' = paper_text
            /\ notes' = <<>>
    /\ site' = "web"
    /\ ppc' = "built"
    /\ UNCHANGED <<paper_text, chunker_vars, pipeline_vars>>

NextPrompt == AnalyzeSinglePaper \/ RunAnalysis

SpecPrompt == InitPrompt /\ [][NextPrompt]_vars

(***************************************************************************)
(* A run of the command line over several PDF files (agent.py, main).      *)
(* A file either is processed and analysed without error, or makes         *)
(* process_pdf raise (its extraction fails), or makes                      *)
(* analyze_single_paper raise (its analysis fails).                        *)
(***************************************************************************)
Faults == {"none", "extract", "analysis"}

PdfLists == UNION {[1 .. n -> Faults] : n \in 1 .. MaxPdfs}

InitBatch ==
    /\ pdfs \in PdfLists
    /\ run_mode \in {"analyze", "batch", "compare"}
    /\ next_pdf = 1
    /\ attempted = {}
    /\ processed = {}
    /\ reported = <<>>
    /\ run_state = "running"
    /\ ChunkerIdle
    /\ PromptIdle
    /\ PipelineIdle("batch")

\* whether the body of the loop raises for a file with fault f: main_analyze
\* calls process_pdf and analyze_single_paper, batch_analyze and the compare
\* mode call process_pdf only
BodyRaises(mode, f) ==
    IF mode = "analyze" THEN f # "none" ELSE f = "extract"

\* One iteration of the loop over the files.  No loop has a try around its
\* body: an exception leaves the loop and the function, reaches the except
\* clause of main (lines 398-400), is printed and raised again.
LoopBody(mode) ==
    /\ run_state = "running"
    /\ run_mode = mode
    /\ next_pdf <= Len(pdfs)
    /\ attempted' = attempted \cup {next_pdf}
    /\ IF BodyRaises(mode, pdfs[next_pdf])
       THEN /\ run_state' = "aborted"
            /\ reported' = Append(reported, [error |-> pdfs[next_pdf]])
            /\ UNCHANGED <<processed, next_pdf>>
       ELSE /\ processed' = processed \cup {next_pdf}
            /\ next_pdf' = next_pdf + 1
            /\ UNCHANGED <<run_state, reported>>
    /\ UNCHANGED <<pdfs, run_mode, batch_rest>>

\* agent.py lines 336-340, main_analyze
MainAnalyzeIter == LoopBody("analyze")

\* agent.py lines 268-272, batch_analyze
BatchAnalyzeIter == LoopBody("batch")

\* agent.py lines 379-380, main in compare mode
CompareIter == LoopBody("compare")

\* the loop over the files is exhausted
RunFinishes ==
    /\ run_state = "running"
    /\ next_pdf > Len(pdfs)
    /\ run_state' = "finished"
    /\ UNCHANGED <<pdfs, run_mode, next_pdf, attempted, processed, reported,
                   batch_rest>>

NextBatch == MainAnalyzeIter \/ BatchAnalyzeIter \/ CompareIter \/ RunFinishes

SpecBatch == InitBatch /\ [][NextBatch]_vars

(***************************************************************************)
(* What the claims speak of.                                               *)
(***************************************************************************)
Valid == 0 <= overlap /\ overlap < chunk_size

\* a paragraph break (two newlines) sits at index i of t
HasBreakAt(t, i) == i \in t.nl /\ (i + 1) \in t.nl

\* the offsets in text at which the substring of window w starts and ends
StartOffset(w) == AdjustIndex(w.start, StrLen(text))
EndOffset(w) == AdjustIndex(w.end, StrLen(text))

\* s without its first n characters
Drop(s, n) == [len |-> s.len - n, nl |-> {i - n : i \in {j \in s.nl : j >= n}}]

\* the last n characters of s
Suffix(s, n) ==
    [len |-> n, nl |-> {i - (s.len - n) : i \in {j \in s.nl : j >= s.len - n}}]

RECURSIVE Joined(_)
Joined(cs) == IF cs = <<>> THEN EmptyStr ELSE Concat(Head(cs), Joined(Tail(cs)))

\* the chunks up to the i-th, each later chunk without the prefix it shares
\* with the chunk before it
RECURSIVE Rebuilt(_)
Rebuilt(i) ==
    IF i = 0 THEN EmptyStr
    ELSE IF i = 1 THEN chunks[1]
    ELSE Concat(Rebuilt(i - 1),
                Drop(chunks[i], EndOffset(windows[i - 1]) - windows[i].start))

\* C4: for 0 <= overlap < chunk_size the returned chunks start at offset 0,
\* end at |text|, leave no gap between consecutive windows, and joined with
\* each overlapped prefix removed they give back text exactly.
C4_NoCharacterDropped ==
    (pc = "done" /\ Valid) =>
        /\ windows[1].start = 0
        /\ EndOffset(windows[Len(windows)]) = StrLen(text)
        /\ \A i \in 1 .. Len(windows) - 1 :
              /\ windows[i + 1].start >= 0
              /\ windows[i + 1].start <= EndOffset(windows[i])
        /\ Rebuilt(Len(chunks)) = text

\* C4 witness: a returned call with overlap, three or more chunks, one of
\* them cut at a paragraph break
C4_Witness ==
    /\ pc = "done" /\ Valid /\ overlap > 0
    /\ Len(chunks) >= 3
    /\ \E i \in 1 .. Len(windows) : windows[i].shrunk

\* C5: with overlap 0 and |text| > chunk_size the chunks joined in order
\* are text.
C5_ConcatEqualsText ==
    (pc = "done" /\ overlap = 0 /\ StrLen(text) > chunk_size) =>
        Joined(chunks) = text

\* C5 witness: such a call returned several chunks of a text that holds a
\* paragraph break
C5_Witness ==
    /\ pc = "done" /\ overlap = 0 /\ StrLen(text) > chunk_size
    /\ Len(chunks) >= 3
    /\ \E i \in 0 .. StrLen(text) - 2 : HasBreakAt(text, i)

\* C7: whenever chunk_text has returned, the last chunk ends at offset
\* |text| and is a suffix of text.
C7_LastChunkReachesEnd ==
    pc = "done" =>
        LET n == Len(chunks)
        IN  /\ n >= 1
            /\ EndOffset(windows[n]) = StrLen(text)
            /\ StrLen(chunks[n]) <= StrLen(text)
            /\ chunks[n] = Suffix(text, StrLen(chunks[n]))

\* C7 witness: a returned call whose first chunk was cut at a paragraph
\* break and whose last window ran past the end of text
C7_Witness ==
    /\ pc = "done"
    /\ Len(chunks) >= 2
    /\ windows[1].shrunk
    /\ windows[Len(windows)].end > StrLen(text)

\* C9: if |text| <= chunk_size the call returns exactly one chunk, text
\* itself, whatever the overlap.
C9_ShortTextOneChunk ==
    (pc = "done" /\ StrLen(text) <= chunk_size) => chunks = <<text>>

\* C9 witness: a returned call with |text| = chunk_size and an overlap that
\* is not smaller than chunk_size
C9_Witness ==
    /\ pc = "done"
    /\ StrLen(text) = chunk_size
    /\ overlap >= chunk_size
    /\ text.nl # {}

\* C1: a call with overlap >= chunk_size and |text| > chunk_size fails fast
\* with an error; it never runs a loop iteration that leaves start where it
\* was or moves it back.
C1_FailsFast ==
    [][(pc = "loop" /\ overlap >= chunk_size /\ StrLen(text) > chunk_size)
          => (pc' = "error" \/ start' > start)]_vars

\* C2: for |text| > chunk_size and 0 <= overlap < chunk_size, start strictly
\* increases on every iteration of the loop, also when a paragraph break
\* shrinks the window.
C2_StartAdvances ==
    [][(pc = "loop" /\ Valid /\ StrLen(text) > chunk_size /\ windows' # windows)
          => start' > start]_vars

\* C3: with overlap > 0 and at least two chunks returned, chunk i+1 starts at
\* the end offset of chunk i minus overlap, unless chunk i was cut at a
\* paragraph break, and then the two chunks overlap by at most overlap
\* characters.
C3_OverlapInvariant ==
    (pc = "done" /\ overlap > 0 /\ Len(chunks) >= 2) =>
        \A i \in 1 .. Len(chunks) - 1 :
            IF windows[i].shrunk
            THEN EndOffset(windows[i]) - StartOffset(windows[i + 1]) <= overlap
            ELSE windows[i + 1].start = EndOffset(windows[i]) - overlap

\* C6: for 0 <= overlap < chunk_size every chunk the loop appends is a
\* non-empty substring text[start:end] with 0 <= start < end, at most
\* chunk_size characters long.
C6_ChunkBounded ==
    (Valid /\ StrLen(text) > chunk_size) =>
        \A i \in 1 .. Len(chunks) :
            /\ 0 <= windows[i].start
            /\ windows[i].start < windows[i].end
            /\ StrLen(chunks[i]) >= 1
            /\ StrLen(chunks[i]) <= chunk_size

\* the paragraph breaks that lie inside the last overlap characters of the
\* window [s, s + chunk_size) at an index greater than s
BreaksInTail(s) ==
    {j \in 0 .. StrLen(text) - 2 :
        /\ HasBreakAt(text, j)
        /\ j > s
        /\ j >= s + chunk_size - overlap
        /\ j + 2 <= s + chunk_size}

\* C8: when start + chunk_size lies before |text|, the chunk ends at the last
\* paragraph break inside the last overlap characters of the window at an
\* index greater than start, and at start + chunk_size when there is none
\* (stated for 0 <= overlap < chunk_size).
C8_BreakPreferred ==
    Valid =>
        \A i \in 1 .. Len(windows) :
            LET s == windows[i].start
            IN  (StrLen(text) > chunk_size /\ s + chunk_size < StrLen(text)) =>
                    IF BreaksInTail(s) # {}
                    THEN windows[i].end = SetMax(BreaksInTail(s))
                    ELSE windows[i].end = s + chunk_size

\* C8 holds of every window whose start is a real offset of text
C8_FromRealStart ==
    \A i \in 1 .. Len(windows) :
        LET s == windows[i].start
        IN  (Valid /\ s >= 0 /\ StrLen(text) > chunk_size
                /\ s + chunk_size < StrLen(text)) =>
                IF BreaksInTail(s) # {}
                THEN windows[i].end = SetMax(BreaksInTail(s))
                ELSE windows[i].end = s + chunk_size

\* the first n characters of s
Prefix(s, n) == [len |-> n, nl |-> {i \in s.nl : i < n}]

\* where the first window of a text longer than CHUNK_SIZE is cut: at the last
\* paragraph break inside its last DEFAULT_OVERLAP characters, else at
\* CHUNK_SIZE
FirstCut(t) ==
    LET hits == {j \in t.nl : /\ (j + 1) \in t.nl
                              /\ j >= CHUNK_SIZE - DEFAULT_OVERLAP
                              /\ j + 2 <= CHUNK_SIZE}
    IN  IF hits = {} THEN CHUNK_SIZE ELSE SetMax(hits)

\* C10: the text embedded in a prompt is at most MAX_TEXT_LENGTH characters
\* long; a longer paper text is replaced by its first chunk followed by one
\* note whose N is the length of that chunk and whose M is the length of the
\* whole text; a text within the budget is embedded as it is.
C10_PromptWithinBudget ==
    ppc = "built" =>
        /\ StrLen(embedded) <= MAX_TEXT_LENGTH
        /\ IF StrLen(paper_text) > MAX_TEXT_LENGTH
           THEN /\ Len(notes) = 1
                /\ notes[1].shown = FirstCut(paper_text)
                /\ notes[1].total = StrLen(paper_text)
                /\ Prefix(embedded, notes[1].shown)
                       = Prefix(paper_text, notes[1].shown)
                /\ StrLen(embedded) = notes[1].shown
                       + (IF site = "cli" THEN CliNoteHead ELSE WebNoteHead)
                       + CommaLen(notes[1].shown) + NoteMid
                       + CommaLen(notes[1].total) + NoteTail
                /\ Drop(embedded, notes[1].shown).nl = {0, 1}
           ELSE /\ embedded = paper_text
                /\ notes = <<>>

\* C10 witness: the web analysis of a paper text over the budget whose first
\* chunk was cut at a paragraph break
C10_Witness ==
    /\ ppc = "built"
    /\ site = "web"
    /\ StrLen(paper_text) > MAX_TEXT_LENGTH
    /\ Len(notes) = 1
    /\ notes[1].shown < WEB_CHUNK_SIZE

\* C11: a failure on one document does not abort a run over several
\* documents: the run is never aborted, and when it has ended process_pdf
\* was called for every document.
C11_RunContinues ==
    /\ run_state # "aborted"
    /\ run_state = "finished" => attempted = 1 .. Len(pdfs)

(***************************************************************************)
(* format_paper_for_analysis (src/pdf_extractor.py, lines 333-376).  A     *)
(* str is a sequence of tokens: a literal of the source is one token, a    *)
(* field of the paper is the tokens it was given, a number is the tokens   *)
(* of its decimal digits.                                                  *)
(***************************************************************************)

\* None as the value of a field
Absent == <<"None">>

\* the truth value Python gives a field: None and "" (and []) are false
Truthy(v) == v # Absent /\ v # <<>>

\* s[:n]
FirstN(s, n) == SubSeq(s, 1, IF Len(s) > n THEN n ELSE Len(s))

\* str(n) of a natural number, one digit per token
RECURSIVE Decimal(_)
Decimal(n) ==
    LET digit == <<"0", "1", "2", "3", "4", "5", "6", "7", "8", "9">>[(n % 10) + 1]
    IN  IF n < 10 THEN <<digit>> ELSE Decimal(n \div 10) \o <<digit>>

\* sep.join(parts)
RECURSIVE JoinParts(_, _)
JoinParts(sep, parts) ==
    IF parts = <<>> THEN <<>>
    ELSE IF Len(parts) = 1 THEN parts[1]
    ELSE parts[1] \o sep \o JoinParts(sep, Tail(parts))

\* lines 342-343: the header and the empty line after it
HeaderParts(paper) ==
    << <<"# ">> \o (IF Truthy(paper.title) THEN paper.title ELSE paper.filename),
       <<>> >>

\* lines 345-352: authors, DOI, arXiv ID, page count and an empty line
MetadataParts(paper) ==
    (IF Truthy(paper.authors)
     THEN << <<"**Authors:** ">> \o paper.authors >> ELSE <<>>)
    \o (IF Truthy(paper.doi) THEN << <<"**DOI:** ">> \o paper.doi >> ELSE <<>>)
    \o (IF Truthy(paper.arxiv_id)
        THEN << <<"**arXiv:** ">> \o paper.arxiv_id >> ELSE <<>>)
    \o << <<"**Pages:** ">> \o Decimal(paper.page_count), <<>> >>

\* lines 355-358
AbstractParts(paper) ==
    IF Truthy(paper.abstract)
    THEN << <<"## Abstract">>, paper.abstract, <<>> >>
    ELSE <<>>

\* lines 361-362
FullTextParts(paper) == << <<"## Full Text">>, paper.text >>

\* line 368: paper.tables[:10]
TableRows_all(tbls) == tbls

TableRows(tbls) == FirstN(tbls, MAX_TABLE_ROWS)

\* line 369: the summary of the i-th listed table
TableSummary(i, tbl) ==
    <<"**Table ">> \o Decimal(i) \o <<" (Page ">> \o Decimal(tbl.page)
    \o <<"):** ">> \o FirstN(tbl.content, MAX_TABLE_CONTENT)

\* lines 365-369
TableParts(paper) ==
    IF paper.tables # <<>>
    THEN << <<>>, <<"## Detected Tables">> >>
         \o [i \in DOMAIN TableRows(paper.tables) |->
                TableSummary(i, TableRows(paper.tables)[i])]
    ELSE <<>>

\* lines 372-374
FigureParts(paper) ==
    IF paper.figures # <<>>
    THEN << <<>>, <<"## Figures: ">> \o Decimal(Len(paper.figures)) \o <<" detected">> >>
    ELSE <<>>

\* lines 340-376
format_paper_for_analysis(paper) ==
    JoinParts(<<"\n">>, HeaderParts(paper) \o MetadataParts(paper)
                        \o AbstractParts(paper) \o FullTextParts(paper)
                        \o TableParts(paper) \o FigureParts(paper))

(***************************************************************************)
(* The store of papers (database.py) under a sequence of calls that save   *)
(* a paper: process_pdf of the command line and run_analysis of the web    *)
(* application.  A file is a name and its bytes; two of the files have     *)
(* the same bytes.                                                         *)
(***************************************************************************)
Files == {"a.pdf", "a_copy.pdf", "b.pdf", "c.pdf"}

FileBytes(f) ==
    CASE f = "a.pdf" -> "A"
      [] f = "a_copy.pdf" -> "A"
      [] f = "b.pdf" -> "B"
      [] f = "c.pdf" -> "C"

\* pdf_extractor.py lines 35-41: the digest is a function of the bytes read,
\* and different bytes have different digests
compute_file_hash(f) == <<"sha256", FileBytes(f)>>

\* the identifiers extract_citations_from_text finds in the text of a file
Cites(f) ==
    CASE FileBytes(f) = "A" -> <<"doi:1">>
      [] FileBytes(f) = "B" -> <<>>
      [] FileBytes(f) = "C" -> <<"doi:1", "arxiv:2">>

\* ExtractedPaper.text of a file: a function of its bytes
PaperText(f) == <<"text of ", FileBytes(f)>>

\* SELECT ... FROM papers WHERE file_hash = ?  (the positions of the rows)
SelectByHash_blind(tbl, h) == {}
SelectByHash(tbl, h) == {i \in DOMAIN tbl : tbl[i].file_hash = h}

\* INSERT INTO papers: file_hash is UNIQUE (line 36), a second row with a
\* stored hash raises IntegrityError; id is AUTOINCREMENT and no row is ever
\* deleted, so the new id is the number of rows plus one
InsertPaper(tbl, f, h) ==
    IF \E i \in DOMAIN tbl : tbl[i].file_hash = h
    THEN [papers |-> tbl, paper_id |-> 0, raised |-> TRUE]
    ELSE [papers |-> Append(tbl, [id |-> Len(tbl) + 1, file_hash |-> h,
                                  filename |-> f, text_content |-> PaperText(f)]),
          paper_id |-> Len(tbl) + 1, raised |-> FALSE]

\* database.py lines 115-147
save_paper(tbl, f, h) ==
    LET existing == SelectByHash(tbl, h)
    IN  IF existing # {}
        THEN [papers |-> tbl,
              paper_id |-> tbl[CHOOSE i \in existing : TRUE].id,
              raised |-> FALSE]
        ELSE InsertPaper(tbl, f, h)

\* database.py lines 272-294: one row per citation, nothing is looked up
save_citations(tbl, paper_id, cits) ==
    tbl \o [i \in DOMAIN cits |-> [paper_id |-> paper_id, ident |-> cits[i]]]

InitStore ==
    /\ papers = <<>>
    /\ citation_rows = <<>>
    /\ last_call = [op |-> "none", file |-> "none", paper_id |-> 0,
                    existed |-> FALSE, before |-> <<>>, raised |-> FALSE]
    /\ calls = 0
    /\ pdf_results = <<>>
    /\ save_threads = <<>>
    /\ ChunkerIdle
    /\ PromptIdle
    /\ PipelineIdle("store")

\* what a call that went through save_paper leaves behind
Saved(op, f, r) ==
    [op |-> op, file |-> f, paper_id |-> r.paper_id,
     existed |-> \E i \in DOMAIN papers :
                    papers[i].file_hash = compute_file_hash(f),
     before |-> papers, raised |-> r.raised]

\* pdf_extractor.py lines 44-114: the paper extract_pdf makes of a file
extract_pdf(f) ==
    [title |-> Absent, filename |-> <<f>>, authors |-> Absent, doi |-> Absent,
     arxiv_id |-> Absent, page_count |-> 1, abstract |-> Absent,
     text |-> PaperText(f), tables |-> <<>>, figures |-> <<>>]

\* agent.py lines 53-119: a stored hash returns the stored row and saves
\* nothing; otherwise the paper is saved, then its citations if it has any
ProcessPdf(f) ==
    /\ calls < MaxCalls
    /\ calls' = calls + 1
    /\ LET h == compute_file_hash(f)
           existing == {i \in DOMAIN papers : papers[i].file_hash = h}
       IN  IF existing # {}
           THEN /\ last_call' = [op |-> "process_pdf", file |-> f,
                                 paper_id |-> papers[CHOOSE i \in existing : TRUE].id,
                                 existed |-> TRUE, before |-> papers,
                                 raised |-> FALSE]
                /\ pdf_results' = Append(pdf_results,
                        [file |-> f, cached |-> TRUE,
                         text |-> papers[CHOOSE i \in existing : TRUE].text_content])
                /\ UNCHANGED <<papers, citation_rows>>
           ELSE LET r == save_paper(papers, f, h)
                IN  /\ papers' = r.papers
                    /\ last_call' = Saved("process_pdf", f, r)
                    /\ citation_rows' =
                          IF r.raised \/ Cites(f) = <<>>
                          THEN citation_rows
                          ELSE save_citations(citation_rows, r.paper_id, Cites(f))
                    /\ pdf_results' =
                          IF r.raised THEN pdf_results
                          ELSE Append(pdf_results,
                                  [file |-> f, cached |-> FALSE,
                                   text |-> format_paper_for_analysis(extract_pdf(f))])
    /\ UNCHANGED <<save_threads, store_rest>>

\* web_app.py lines 90-112: the paper is saved without a look at its hash
\* first, then its citations if it has any
RunAnalysisSave(f) ==
    /\ calls < MaxCalls
    /\ calls' = calls + 1
    /\ LET r == save_paper(papers, f, compute_file_hash(f))
       IN  /\ papers' = r.papers
           /\ last_call' = Saved("run_analysis", f, r)
           /\ citation_rows' =
                 IF r.raised \/ Cites(f) = <<>>
                 THEN citation_rows
                 ELSE save_citations(citation_rows, r.paper_id, Cites(f))
    /\ UNCHANGED <<pdf_results, save_threads, store_rest>>

NextStore ==
    \/ \E f \in Files : ProcessPdf(f)
    \/ \E f \in Files : RunAnalysisSave(f)

SpecStore == InitStore /\ [][NextStore]_vars

\* C12: the store holds at most one paper row per file_hash, and a call that
\* saves a file whose hash is already stored returns the id of the stored
\* row, raises nothing and leaves the table of papers as it was.
C12_OnePaperPerHash ==
    /\ \A i, j \in DOMAIN papers :
          papers[i].file_hash = papers[j].file_hash => i = j
    /\ last_call.op # "none" =>
          /\ ~last_call.raised
          /\ \E i \in DOMAIN papers :
                /\ papers[i].file_hash = compute_file_hash(last_call.file)
                /\ papers[i].id = last_call.paper_id
    /\ (last_call.op # "none" /\ last_call.existed) =>
          papers = last_call.before

\* a copy of a stored file was saved through save_paper itself
C12_Witness ==
    /\ last_call.op = "run_analysis"
    /\ last_call.existed
    /\ Len(papers) >= 2
    /\ \E i \in DOMAIN papers :
          /\ papers[i].id = last_call.paper_id
          /\ papers[i].filename # last_call.file

(***************************************************************************)
(* Enrichment of citations (semantic_scholar.py) as process_pdf uses it.   *)
(* A call returns either a value or an exception:                          *)
(* [exc |-> FALSE, val |-> v] or [exc |-> TRUE, ...].                       *)
(***************************************************************************)
None == <<>>
Returns(v) == [exc |-> FALSE, val |-> v]
Raises == [exc |-> TRUE, val |-> None]

\* what a request can meet: a paper, or one of the ways a lookup fails
NetOutcomes == {"found", "http_error", "timeout", "bad_json"}
FailedOutcomes == NetOutcomes \ {"found"}

\* lines 45-47: urlopen with timeout=30, read and json.loads
Urlopen(endpoint, net) ==
    IF net = "found" THEN Returns(<<"paper", endpoint>>) ELSE Raises

\* semantic_scholar.py lines 33-50: every Exception of the request is
\* caught, printed and answered with None
MakeRequest_noexcept(endpoint, net) == Urlopen(endpoint, net)
MakeRequest(endpoint, net) ==
    LET r == Urlopen(endpoint, net)
    IN  IF r.exc THEN Returns(None) ELSE r

\* lines 95-114, get_paper_by_doi and get_paper_by_arxiv:
\* _parse_paper(data) if data else None
GetPaper(endpoint, net) ==
    LET data == MakeRequest(endpoint, net)
    IN  IF data.exc THEN Raises
        ELSE IF data.val # None THEN Returns(<<"PaperInfo", data.val>>)
        ELSE Returns(None)

\* semantic_scholar.py lines 179-212; net1 is what the DOI lookup meets and
\* net2 what the arXiv lookup meets, when they are made
enrich_citation(citation, net1, net2) ==
    LET by_doi == IF citation.type = "doi"
                  THEN GetPaper(<<"DOI", citation.id>>, net1)
                  ELSE Returns(None)
        by_arxiv == IF by_doi.exc THEN Raises
                    ELSE IF by_doi.val = None /\ citation.type = "arxiv"
                    THEN GetPaper(<<"arXiv", citation.id>>, net2)
                    ELSE by_doi
    IN  IF by_arxiv.exc THEN Raises
        ELSE IF by_arxiv.val # None
        THEN Returns([citation EXCEPT !.info = by_arxiv.val])
        ELSE Returns(citation)

\* the lookups enrich_citation makes for a citation, with what they meet
Lookups(citation, net1, net2) ==
    IF citation.type = "doi" THEN {net1}
    ELSE IF citation.type = "arxiv" THEN {net2}
    ELSE {}

\* a citation as extract_citations_from_text makes it: its type, its id, no
\* enrichment yet; the ids of a list are pairwise different
Citation(t, n) == [type |-> t, id |-> n, info |-> None]

CitationLists ==
    UNION {{[i \in 1 .. n |-> Citation(ts[i], i)] :
               ts \in [1 .. n -> {"doi", "arxiv", "pmid"}]} : n \in 1 .. MaxCites}

\* agent.py line 88: batch_enrich_citations is called for a list that is
\* not empty; 1 stands for a limit below the length of the list
InitEnrich ==
    /\ citations \in CitationLists
    /\ max_enrichments \in {1, MAX_ENRICHMENTS}
    /\ enriched = <<>>
    /\ outcomes = <<>>
    /\ saved = <<>>
    /\ epc = "loop"
    /\ ChunkerIdle
    /\ PromptIdle
    /\ PipelineIdle("enrich")

\* semantic_scholar.py lines 228-232, one iteration of the loop of
\* batch_enrich_citations; an exception of enrich_citation leaves
\* batch_enrich_citations and process_pdf
EnrichIter ==
    /\ epc = "loop"
    /\ Len(enriched) < Len(citations)
    /\ LET i == Len(enriched)
           citation == citations[i + 1]
       IN  IF i < max_enrichments
           THEN \E net1, net2 \in NetOutcomes :
                   LET r == enrich_citation(citation, net1, net2)
                   IN  /\ outcomes' = Append(outcomes, Lookups(citation, net1, net2))
                       /\ IF r.exc
                          THEN /\ epc' = "raised"
                               /\ UNCHANGED enriched
                          ELSE /\ enriched' = Append(enriched, r.val)
                               /\ UNCHANGED epc
           ELSE /\ enriched' = Append(enriched, citation)
                /\ outcomes' = Append(outcomes, {})
                /\ UNCHANGED epc
    /\ UNCHANGED <<citations, max_enrichments, saved, enrich_rest>>

\* line 234: return enriched
EnrichReturn ==
    /\ epc = "loop"
    /\ Len(enriched) = Len(citations)
    /\ epc' = "returned"
    /\ UNCHANGED <<citations, max_enrichments, enriched, outcomes, saved,
                   enrich_rest>>

\* agent.py lines 94-108: save_paper, then save_citations(paper_id, citations)
SaveEnriched ==
    /\ epc = "returned"
    /\ saved' = enriched
    /\ epc' = "saved"
    /\ UNCHANGED <<citations, max_enrichments, enriched, outcomes, enrich_rest>>

NextEnrich == EnrichIter \/ EnrichReturn \/ SaveEnriched

SpecEnrich == InitEnrich /\ [][NextEnrich]_vars

\* the citations taken so far whose lookup failed
FailedLookup == {j \in DOMAIN outcomes : outcomes[j] \cap FailedOutcomes # {}}

\* C13: a failed or timed-out lookup raises nothing out of the enrichment,
\* the citation it was made for is returned as it was given, and when the
\* paper is saved every citation of the list is saved, in order.
C13_FailureSwallowed ==
    /\ epc # "raised"
    /\ \A j \in FailedLookup : j \in DOMAIN enriched /\ enriched[j] = citations[j]
    /\ epc = "saved" =>
          /\ Len(saved) = Len(citations)
          /\ \A j \in DOMAIN saved :
                /\ saved[j].type = citations[j].type
                /\ saved[j].id = citations[j].id
                /\ j \in FailedLookup => saved[j] = citations[j]

\* a list was saved in which one lookup timed out and another found a paper
C13_Witness ==
    /\ epc = "saved"
    /\ \E j \in DOMAIN outcomes : "timeout" \in outcomes[j]
    /\ \E j \in DOMAIN saved : saved[j].info # None

(***************************************************************************)
(* Extraction of citation identifiers (pdf_extractor.py lines 263-296).    *)
(* A text is a sequence of characters; the three regular expressions are   *)
(* matched as re.finditer matches them: leftmost first, greedy, the next   *)
(* search starting where the last match ended.                             *)
(***************************************************************************)
UpperCase == <<"A", "B", "C", "D", "E", "F", "G", "H", "I", "J", "K", "L", "M",
               "N", "O", "P", "Q", "R", "S", "T", "U", "V", "W", "X", "Y", "Z">>
LowerCase == <<"a", "b", "c", "d", "e", "f", "g", "h", "i", "j", "k", "l", "m",
               "n", "o", "p", "q", "r", "s", "t", "u", "v", "w", "x", "y", "z">>

\* str.lower, and the folding of re.IGNORECASE, for one character
Lower(c) ==
    IF \E i \in DOMAIN UpperCase : UpperCase[i] = c
    THEN LowerCase[CHOOSE i \in DOMAIN UpperCase : UpperCase[i] = c]
    ELSE c

\* \d
IsDigit(c) == c \in {"0", "1", "2", "3", "4", "5", "6", "7", "8", "9"}
\* \s
IsSpace(c) == c \in {" ", "\n", "\t", "\r"}
\* [^\s\]>,] of the DOI pattern
DoiTailChar_any(c) == TRUE
DoiTailChar(c) == ~IsSpace(c) /\ c \notin {"]", ">", ","}
\* [:\s] of the PMID pattern
PmidSepChar(c) == c = ":" \/ IsSpace(c)
\* [.,;:\]>] of the trailing-punctuation pattern
TrailingChar(c) == c \in {".", ",", ";", ":", "]", ">"}

\* where the longest run of characters of class cls that starts at p ends:
\* the first position from p on that is past the text or not in the class
InClass(cls, c) ==
    CASE cls = "digit" -> IsDigit(c)
      [] cls = "doi_tail" -> DoiTailChar(c)
      [] cls = "pmid_sep" -> PmidSepChar(c)

RunEnd(t, p, cls) ==
    CHOOSE q \in p .. Len(t) + 1 :
        /\ q = Len(t) + 1 \/ ~InClass(cls, t[q])
        /\ \A r \in p .. q - 1 : InClass(cls, t[r])

\* the characters of lit stand at p; fold: letter case is ignored
Literal(t, p, lit, fold) ==
    /\ p + Len(lit) - 1 <= Len(t)
    /\ \A i \in DOMAIN lit :
          IF fold THEN Lower(t[p + i - 1]) = Lower(lit[i])
          ELSE t[p + i - 1] = lit[i]

\* (10\.\d{4,}/[^\s\]>,]+) matched at p: the match as [from, to, g1, g2]
\* with group 1 the characters g1 .. g2, or to = 0 when there is no match
DoiMatch(t, p) ==
    LET d == RunEnd(t, p + 3, "digit")
        e == RunEnd(t, d + 1, "doi_tail")
    IN  IF /\ Literal(t, p, <<"1", "0", ".">>, FALSE)
           /\ d - (p + 3) >= 4
           /\ d <= Len(t)
           /\ t[d] = "/"
           /\ e > d + 1
        THEN [from |-> p, to |-> e - 1, g1 |-> p, g2 |-> e - 1]
        ELSE [from |-> p, to |-> 0, g1 |-> p, g2 |-> 0]

\* arXiv:(\d{4}\.\d{4,5}(?:v\d+)?) with re.IGNORECASE matched at p
ArxivMatch(t, p) ==
    LET q == p + 6
        r == q + 5
        n == RunEnd(t, r, "digit") - r
        e == r + (IF n >= 5 THEN 5 ELSE n)
        v == IF e + 1 <= Len(t) /\ Lower(t[e]) = "v" /\ IsDigit(t[e + 1])
             THEN RunEnd(t, e + 1, "digit")
             ELSE e
    IN  IF /\ Literal(t, p, <<"a", "r", "x", "i", "v", ":">>, TRUE)
           /\ q + 4 <= Len(t)
           /\ \A i \in q .. q + 3 : IsDigit(t[i])
           /\ t[q + 4] = "."
           /\ n >= 4
        THEN [from |-> p, to |-> v - 1, g1 |-> q, g2 |-> v - 1]
        ELSE [from |-> p, to |-> 0, g1 |-> p, g2 |-> 0]

\* PMID[:\s]*(\d+) with re.IGNORECASE matched at p
PmidMatch(t, p) ==
    LET q == RunEnd(t, p + 4, "pmid_sep")
        d == RunEnd(t, q, "digit")
    IN  IF /\ Literal(t, p, <<"p", "m", "i", "d">>, TRUE)
           /\ d > q
        THEN [from |-> p, to |-> d - 1, g1 |-> q, g2 |-> d - 1]
        ELSE [from |-> p, to |-> 0, g1 |-> p, g2 |-> 0]

MatchAt(kind, t, p) ==
    CASE kind = "doi" -> DoiMatch(t, p)
      [] kind = "arxiv" -> ArxivMatch(t, p)
      [] kind = "pmid" -> PmidMatch(t, p)

\* re.finditer(pattern, text): the matches from position p on, in order
RECURSIVE FindIter(_, _, _)
FindIter(kind, t, p) ==
    IF p > Len(t) THEN <<>>
    ELSE LET m == MatchAt(kind, t, p)
         IN  IF m.to = 0 THEN FindIter(kind, t, p + 1)
             ELSE <<m>> \o FindIter(kind, t, m.to + 1)

\* re.sub(r'[.,;:\]>]+$', '', s)
StripTrailing(s) ==
    LET keep == {i \in DOMAIN s : ~TrailingChar(s[i])}
    IN  IF keep = {} THEN <<>> ELSE SubSeq(s, 1, SetMax(keep))

\* lines 271-285: the dict appended for a match
CitationOf(kind, t, m) ==
    LET g == SubSeq(t, m.g1, m.g2)
    IN  [type |-> kind, id |-> IF kind = "doi" THEN StripTrailing(g) ELSE g]

\* lines 269-285: all DOIs, then all arXiv ids, then all PMIDs
Collect(kind, t) ==
    LET ms == FindIter(kind, t, 1)
    IN  [i \in DOMAIN ms |-> CitationOf(kind, t, ms[i])]

Collected(t) == Collect("doi", t) \o Collect("arxiv", t) \o Collect("pmid", t)

\* line 292: key not in seen
IsNew_always(key, seen) == TRUE
IsNew(key, seen) == key \notin seen

\* lines 288-294
RECURSIVE Deduplicate(_, _, _)
Deduplicate(cits, i, seen) ==
    IF i > Len(cits) THEN <<>>
    ELSE LET key == <<cits[i].type, cits[i].id>>
         IN  IF IsNew(key, seen)
             THEN <<cits[i]>> \o Deduplicate(cits, i + 1, seen \cup {key})
             ELSE Deduplicate(cits, i + 1, seen)

extract_citations_from_text(t) == Deduplicate(Collected(t), 1, {})

\* the pieces the texts are made of: identifiers, some with the punctuation
\* that follows them, prefixes in either letter case, and the characters
\* that extend or separate them
Pieces ==
    { <<"1", "0", ".", "1", "2", "3", "4", "/", "a">>,
      <<"1", "0", ".", "1", "2", "3", "4", "/", "a", ".", " ">>,
      <<"1", "0", ".", "1", "2", "3", "4", "/", "b", ",">>,
      <<"a", "r", "X", "i", "v", ":", "2", "1", "0", "1", ".", "1", "2", "3", "4">>,
      <<"P", "M", "I", "D", ":">>,
      <<"p", "m", "i", "d", " ">>,
      <<"7">>,
      <<"v", "2">>,
      <<" ">> }

RECURSIVE Flatten(_)
Flatten(ps) == IF ps = <<>> THEN <<>> ELSE Head(ps) \o Flatten(Tail(ps))

CiteTexts ==
    {Flatten(ps) : ps \in UNION {[1 .. n -> Pieces] : n \in 0 .. MaxPieces}}

InitCite ==
    /\ src_text \in CiteTexts
    /\ cit_once = <<>>
    /\ cit_twice = <<>>
    /\ xpc = "ready"
    /\ ChunkerIdle
    /\ PromptIdle
    /\ PipelineIdle("cite")

\* extract_citations_from_text(text)
ExtractOnce ==
    /\ xpc = "ready"
    /\ cit_once' = extract_citations_from_text(src_text)
    /\ xpc' = "once"
    /\ UNCHANGED <<src_text, cit_twice, cite_rest>>

\* extract_citations_from_text(text + text)
ExtractTwice ==
    /\ xpc = "once"
    /\ cit_twice' = extract_citations_from_text(src_text \o src_text)
    /\ xpc' = "twice"
    /\ UNCHANGED <<src_text, cit_once, cite_rest>>

NextCite == ExtractOnce \/ ExtractTwice

SpecCite == InitCite /\ [][NextCite]_vars

Key(cit) == <<cit.type, cit.id>>
Keys(cits) == {Key(cits[i]) : i \in DOMAIN cits}
\* the position of the first entry of cits with the key k
FirstAt(cits, k) ==
    CHOOSE i \in DOMAIN cits :
        Key(cits[i]) = k /\ \A j \in 1 .. i - 1 : Key(cits[j]) # k

\* C14: the output has no two entries with the same (type, id), it holds
\* exactly the pairs that were collected, and its entries stand in the order
\* in which their pairs first occur among the collected matches.
C14_NoDuplicatePairs ==
    xpc # "ready" =>
        LET all == Collected(src_text)
        IN  /\ \A i, j \in DOMAIN cit_once :
                  Key(cit_once[i]) = Key(cit_once[j]) => i = j
            /\ Keys(cit_once) = Keys(all)
            /\ \A i, j \in DOMAIN cit_once :
                  i < j => FirstAt(all, Key(cit_once[i])) < FirstAt(all, Key(cit_once[j]))

\* a pair was collected twice, the second time after another pair and the
\* first time with trailing punctuation
C14_Witness ==
    /\ xpc # "ready"
    /\ Len(cit_once) >= 2
    /\ LET all == Collected(src_text)
       IN  \E i, j, k \in DOMAIN all :
              i < j /\ j < k /\ Key(all[i]) = Key(all[k]) /\ Key(all[j]) # Key(all[i])
    /\ \E i \in 1 .. Len(src_text) :
          LET m == DoiMatch(src_text, i)
          IN  m.to # 0 /\ TrailingChar(src_text[m.to])

\* C15 as stated: for every text, text + text yields the same set of
\* (type, id) pairs as text.
C15_SameSetWhenDoubled ==
    xpc = "twice" => Keys(cit_twice) = Keys(cit_once)

\* the end of the first copy and the start of the second cannot belong to
\* one match: the text ends with whitespace and starts with a character
\* that is no digit, no colon and no whitespace
Separated(t) ==
    t # <<>> =>
        /\ IsSpace(t[Len(t)])
        /\ ~IsDigit(t[1])
        /\ ~PmidSepChar(t[1])

\* C15 amended: for every text that ends with a whitespace character and
\* begins with a character that is neither a digit, a colon nor whitespace,
\* text + text yields the same set of (type, id) pairs as text.
C15_SameSetWhenSeparated ==
    (xpc = "twice" /\ Separated(src_text)) => Keys(cit_twice) = Keys(cit_once)

\* a separated text with two different identifiers was extracted twice
C15_Witness ==
    /\ xpc = "twice"
    /\ src_text # <<>>
    /\ Separated(src_text)
    /\ Cardinality(Keys(cit_once)) >= 2

(***************************************************************************)
(* The filter of reference entries (pdf_extractor.py lines 234-241).  An   *)
(* entry is a string of lead whitespace characters, then body characters   *)
(* that start and end with a character that is no whitespace, then trail   *)
(* whitespace characters.                                                  *)
(***************************************************************************)
EntryLen(entry) == entry.lead + entry.body + entry.trail

\* line 236: entry.strip()
Strip(entry) == [lead |-> 0, body |-> entry.body, trail |-> 0]

\* line 237: if entry and len(entry) > 20
Survives(entry) == EntryLen(entry) # 0 /\ EntryLen(entry) > MIN_REFERENCE_LENGTH

\* line 238: entry[:500] of a stripped entry
Truncate(entry) ==
    [entry EXCEPT !.body = IF entry.body > MAX_REFERENCE_CHARS
                           THEN MAX_REFERENCE_CHARS ELSE entry.body]

\* lengths around the floor of 20 and the cut at 500
EntryBodies == {0, 1, 19, 20, 21, 500, 501}

Entries == [lead : {0, 1}, body : EntryBodies, trail : {0, 1}]

EntryLists == UNION {[1 .. n -> Entries] : n \in 1 .. MaxEntries}

\* line 234: ref_entries = re.split(...)
InitRefs ==
    /\ ref_entries \in EntryLists
    /\ references = <<>>
    /\ ref_next = 1
    /\ rpc = "loop"
    /\ ChunkerIdle
    /\ PromptIdle
    /\ PipelineIdle("refs")

\* lines 235-238, one iteration; a kept entry is recorded with the position
\* it came from
RefIter ==
    /\ rpc = "loop"
    /\ ref_next <= Len(ref_entries)
    /\ LET entry == Strip(ref_entries[ref_next])
       IN  references' =
              IF Survives(entry)
              THEN Append(references, [from |-> ref_next, text |-> Truncate(entry)])
              ELSE references
    /\ ref_next' = ref_next + 1
    /\ UNCHANGED <<ref_entries, rpc, refs_rest>>

\* line 241: return references[:100]
RefReturn ==
    /\ rpc = "loop"
    /\ ref_next > Len(ref_entries)
    /\ references' = SubSeq(references, 1,
                            IF Len(references) > MAX_REFERENCES
                            THEN MAX_REFERENCES ELSE Len(references))
    /\ rpc' = "returned"
    /\ UNCHANGED <<ref_entries, ref_next, refs_rest>>

NextRefs == RefIter \/ RefReturn

SpecRefs == InitRefs /\ [][NextRefs]_vars

\* C16: an entry survives if and only if its trimmed length is at least 20:
\* of the returned references, one comes from position i exactly when the
\* entry at i, stripped, has 20 characters or more.
C16_SurvivesFrom20 ==
    rpc = "returned" =>
        \A i \in DOMAIN ref_entries :
            (\E k \in DOMAIN references : references[k].from = i)
                <=> ref_entries[i].body >= 20

(***************************************************************************)
(* Detection of table rows (pdf_extractor.py lines 126-171).  A block has  *)
(* the coordinates left, top and bottom of its bbox (whole numbers here),  *)
(* lines: whether it is a text block, and its text.                        *)
(***************************************************************************)
\* round(num / den) of Python for num >= 0, den > 0 and den even: to the
\* nearest whole number, a tie to the even one
RoundHalfEven(num, den) ==
    LET q == num \div den
        r == num % den
    IN  IF 2 * r < den THEN q
        ELSE IF 2 * r > den THEN q + 1
        ELSE IF q % 2 = 0 THEN q ELSE q + 1

\* lines 145-146: y_center = (bbox[1] + bbox[3]) / 2,
\* y_key = round(y_center / 10) * 10
YKey_flat(block) == 0
YKey(block) == RoundHalfEven(block.top + block.bottom, 2 * ROW_HEIGHT) * ROW_HEIGHT

\* line 154: at least 3 blocks in the bucket
RowIsTable(row_blocks) == Len(row_blocks) >= MIN_ROW_BLOCKS

\* the order of Python on pairs of numbers: by the first, then the second
KeyLE(a, b) == a[1] < b[1] \/ (a[1] = b[1] /\ a[2] <= b[2])

\* sorted(seq, key=...): stable, an element goes behind the elements
\* whose key is not larger; a key is a pair of numbers
RECURSIVE SortedBy(_, _)
SortedBy(seq, key) ==
    IF seq = <<>> THEN <<>>
    ELSE LET front == SortedBy(SubSeq(seq, 1, Len(seq) - 1), key)
             x == seq[Len(seq)]
             k == Cardinality({i \in DOMAIN front : KeyLE(key[front[i]], key[x])})
         IN  SubSeq(front, 1, k) \o <<x>> \o SubSeq(front, k + 1, Len(front))

\* line 156: x_positions = sorted([b["bbox"][0] for b in row_blocks]), a list
\* with one element per block
XPositions(blocks, row_blocks) ==
    LET ordered == SortedBy(row_blocks, [i \in DOMAIN blocks |-> <<blocks[i].left, 0>>])
    IN  [i \in DOMAIN ordered |-> blocks[ordered[i]].left]

\* lines 159-162: the stripped texts of the blocks from left to right; they
\* are joined with " | "
RowCells(blocks, row_blocks) ==
    LET ordered == SortedBy(row_blocks, [i \in DOMAIN blocks |-> <<blocks[i].left, 0>>])
    IN  [i \in DOMAIN ordered |-> blocks[ordered[i]].text]

\* line 163: row_text.strip() is not empty; a join of two cells or more
\* holds a "|"
RowTextNotEmpty(cells) == Len(cells) >= 2 \/ (Len(cells) = 1 /\ cells[1] # "")

\* blocks whose centres fall on both sides of a bucket border and on it
\* (centres 4, 5 and 15: keys 0, 0 and 20), at three lefts; and an image
BlockShapes ==
    {[left |-> x, top |-> y[1], bottom |-> y[2], lines |-> TRUE,
      text |-> IF x = 110 THEN "" ELSE "cell"] :
        x \in {10, 60, 110}, y \in {<<0, 8>>, <<0, 10>>, <<10, 20>>}}
    \cup {[left |-> 10, top |-> 0, bottom |-> 10, lines |-> FALSE, text |-> ""]}

Pages == UNION {[1 .. n -> BlockShapes] : n \in 0 .. MaxPageBlocks}

InitTable ==
    /\ page_blocks \in Pages
    /\ rows = <<>>
    /\ row_next = 1
    /\ tables = <<>>
    /\ tpc = "group"
    /\ ChunkerIdle
    /\ PromptIdle
    /\ PipelineIdle("table")

\* lines 140-150: the text blocks, grouped by y_key; a bucket holds the
\* positions of its blocks in page order, buckets stand in the order in
\* which their first block was met
RECURSIVE GroupRows(_, _, _)
GroupRows(blocks, i, acc) ==
    IF i > Len(blocks) THEN acc
    ELSE IF ~blocks[i].lines THEN GroupRows(blocks, i + 1, acc)
    ELSE LET y_key == YKey(blocks[i])
             at == {k \in DOMAIN acc : acc[k].y_key = y_key}
         IN  IF at = {}
             THEN GroupRows(blocks, i + 1,
                            Append(acc, [y_key |-> y_key, row_blocks |-> <<i>>]))
             ELSE LET k == CHOOSE k \in at : TRUE
                  IN  GroupRows(blocks, i + 1,
                                [acc EXCEPT ![k].row_blocks = Append(@, i)])

Group ==
    /\ tpc = "group"
    /\ rows' = GroupRows(page_blocks, 1, <<>>)
    /\ tpc' = "detect"
    /\ UNCHANGED <<page_blocks, row_next, tables, table_rest>>

\* lines 153-169, one iteration of the loop over rows.items()
DetectRow ==
    /\ tpc = "detect"
    /\ row_next <= Len(rows)
    /\ LET row == rows[row_next]
           x_positions == XPositions(page_blocks, row.row_blocks)
           cells == RowCells(page_blocks, row.row_blocks)
       IN  tables' =
              IF /\ RowIsTable(row.row_blocks)
                 /\ Len(x_positions) >= MIN_ROW_BLOCKS
                 /\ RowTextNotEmpty(cells)
              THEN Append(tables, [type |-> "table_row", content |-> cells,
                                   y_position |-> row.y_key])
              ELSE tables
    /\ row_next' = row_next + 1
    /\ UNCHANGED <<page_blocks, rows, tpc, table_rest>>

\* line 171: return tables
TablesReturn ==
    /\ tpc = "detect"
    /\ row_next > Len(rows)
    /\ tpc' = "returned"
    /\ UNCHANGED <<page_blocks, rows, row_next, tables, table_rest>>

NextTable == Group \/ DetectRow \/ TablesReturn

SpecTable == InitTable /\ [][NextTable]_vars

\* the text blocks of the page whose centre lies in the bucket of key y:
\* at least y - 5 and at most y + 5, the border belonging to the bucket
\* whose key is an even multiple of 10
InBucket(y) ==
    {i \in DOMAIN page_blocks :
        /\ page_blocks[i].lines
        /\ LET c2 == page_blocks[i].top + page_blocks[i].bottom
           IN  /\ 2 * y - 10 <= c2
               /\ c2 <= 2 * y + 10
               /\ c2 = 2 * y - 10 => (y \div 10) % 2 = 0
               /\ c2 = 2 * y + 10 => (y \div 10) % 2 = 0}

\* C17: no row is emitted for a bucket that holds fewer than 3 text blocks;
\* a page whose every bucket holds at most 2 yields no row.
C17_NoRowUnderThreeBlocks ==
    \A k \in DOMAIN tables : Cardinality(InBucket(tables[k].y_position)) >= 3

\* a page of three text blocks, two of them in one bucket, yielded no row
C17_Witness ==
    /\ tpc = "returned"
    /\ tables = <<>>
    /\ Cardinality({i \in DOMAIN page_blocks : page_blocks[i].lines}) >= 3
    /\ \E k \in DOMAIN rows : Len(rows[k].row_blocks) = 2

\* C18: a bucket is emitted as a table row only if it holds at least 3
\* blocks at pairwise different left coordinates.
C18_ThreeDistinctColumns ==
    \A k \in DOMAIN tables :
        Cardinality({page_blocks[i].left : i \in InBucket(tables[k].y_position)}) >= 3

(***************************************************************************)
(* Inference of title and authors (pdf_extractor.py lines 184-206) from    *)
(* the text blocks extract_pdf collects (lines 74-91).  The text of a      *)
(* block is a sequence of characters; an absent value is <<"None">>.       *)
(***************************************************************************)
\* str.strip() of a sequence of characters
StripSeq(t) ==
    LET keep == {i \in DOMAIN t : ~IsSpace(t[i])}
    IN  IF keep = {} THEN <<>>
        ELSE SubSeq(t, CHOOSE i \in keep : \A j \in keep : i <= j, SetMax(keep))

\* sub in t, for sequences of characters
Contains(t, sub) ==
    \E i \in 1 .. Len(t) - Len(sub) + 1 : SubSeq(t, i, i + Len(sub) - 1) = sub

\* str.lower()
LowerSeq(t) == [i \in DOMAIN t |-> Lower(t[i])]

\* line 205: "," in potential_authors or " and " in potential_authors.lower()
LooksLikeAuthors(t) ==
    Contains(t, <<",">>) \/ Contains(LowerSeq(t), <<" ", "a", "n", "d", " ">>)

\* line 194: key=lambda b: (-b["font_size"], b["bbox"][1])
TitleKey_smallest(b) == <<b.font_size, b.top>>
TitleKey(b) == <<0 - b.font_size, b.top>>

\* lines 188-206: the values given to title and authors
InferTitleAuthors(blocks) ==
    LET first_page_blocks ==
            SelectSeq([i \in DOMAIN blocks |-> i],
                      LAMBDA i : blocks[i].page = 1 /\ blocks[i].type = "text")
        sorted_blocks ==
            SortedBy(first_page_blocks, [i \in DOMAIN blocks |-> TitleKey(blocks[i])])
        potential_authors == StripSeq(blocks[sorted_blocks[2]].text)
    IN  IF first_page_blocks = <<>>
        THEN [title |-> Absent, authors |-> Absent]
        ELSE [title |-> StripSeq(blocks[sorted_blocks[1]].text),
              authors |-> IF Len(sorted_blocks) > 1 /\ LooksLikeAuthors(potential_authors)
                          THEN potential_authors
                          ELSE Absent]

\* the text extract_pdf builds for a block (lines 78-82): its lines, each
\* followed by "\n"
RawTexts ==
    { <<"T", "i", "t", "l", "e", "\n">>,
      <<"A", ",", " ", "B", "\n">>,
      <<"A", " ", "A", "n", "d", " ", "B", "\n">>,
      <<"A", " ", "a", "n", "d", "\n", "B", "\n">>,
      <<"S", "a", "n", "d", "y", "\n">>,
      <<" ", "\n">> }

\* the same for a block with the header and the first line of an abstract,
\* and for a block with the number of the first section
SectionTexts ==
    { <<"A", "b", "s", "t", "r", "a", "c", "t", "\n", "x", "\n">>,
      <<"1", ".", "\n">> }

\* lines 83-89: the block as it is put in all_blocks; image blocks are not
\* put there.  Blocks of page 1 in two sizes at two heights, and of page 2
TextBlocks ==
    {[page |-> 1, type |-> "text", text |-> StripSeq(raw), top |-> y,
      font_size |-> f] : raw \in RawTexts, y \in {0, 50}, f \in {10, 12}}
    \cup {[page |-> n, type |-> "text", text |-> StripSeq(raw), top |-> 50,
           font_size |-> 10] : raw \in SectionTexts, n \in {1, 2}}
    \cup {[page |-> 2, type |-> "text", text |-> <<"T", "i", "t", "l", "e">>,
           top |-> 0, font_size |-> 14]}

BlockLists == UNION {[1 .. n -> TextBlocks] : n \in 0 .. MaxBlocks}

\* line 70: page.get_text("text"), the lines of the text blocks of the page
\* in order, each block followed by "\n"
RECURSIVE PageText(_, _, _)
PageText(blocks, page_num, i) ==
    IF i > Len(blocks) THEN <<>>
    ELSE (IF blocks[i].page = page_num THEN blocks[i].text \o <<"\n">> ELSE <<>>)
         \o PageText(blocks, page_num, i + 1)

\* line 72: f"--- Page {page_num} ---\n{text}"
PagePart(page_num, t) ==
    <<"-", "-", "-", " ", "P", "a", "g", "e", " ">>
    \o <<IF page_num = 1 THEN "1" ELSE "2">>
    \o <<" ", "-", "-", "-", "\n">> \o t

\* lines 68-72 and 97: the parts of the pages whose text is not blank,
\* joined with "\n\n"
ResultText(blocks) ==
    LET t1 == PageText(blocks, 1, 1)
        t2 == PageText(blocks, 2, 1)
        p1 == IF StripSeq(t1) # <<>> THEN PagePart(1, t1) ELSE <<>>
        p2 == IF StripSeq(t2) # <<>> THEN PagePart(2, t2) ELSE <<>>
    IN  IF p1 # <<>> /\ p2 # <<>> THEN p1 \o <<"\n", "\n">> \o p2
        ELSE p1 \o p2

\* the first position from p on that is past t or holds no whitespace
SkipSpace(t, p) ==
    CHOOSE q \in p .. Len(t) + 1 :
        /\ q = Len(t) + 1 \/ ~IsSpace(t[q])
        /\ \A r \in p .. q - 1 : IsSpace(t[r])

\* (?:^|\n)\s*(?:ABSTRACT|Abstract) with re.IGNORECASE: the positions h at
\* which the word can be matched, only whitespace standing between h and
\* the start of the text or a "\n"
AbstractHeaders_any(t) == DOMAIN t
AbstractHeaders(t) ==
    {h \in DOMAIN t :
        /\ Literal(t, h, <<"a", "b", "s", "t", "r", "a", "c", "t">>, TRUE)
        /\ \E p \in 0 .. h - 1 :
              /\ p = 0 \/ t[p] = "\n"
              /\ \A k \in p + 1 .. h - 1 : IsSpace(t[k])}

\* (?=\n\s*(?:INTRODUCTION|Introduction|1\.|Keywords|KEYWORDS)): the
\* positions j of a "\n" at which the lookahead holds
AbstractEnds(t) ==
    {j \in DOMAIN t :
        /\ t[j] = "\n"
        /\ LET k == SkipSpace(t, j + 1)
           IN  \/ Literal(t, k, <<"i", "n", "t", "r", "o", "d", "u", "c", "t", "i", "o", "n">>, TRUE)
               \/ Literal(t, k, <<"1", ".">>, TRUE)
               \/ Literal(t, k, <<"k", "e", "y", "w", "o", "r", "d", "s">>, TRUE)}

\* \s*[:\n]?\s* matched from e on: the triples of the numbers of characters
\* the three parts can take
Separators(t, e) ==
    UNION {UNION {{<<a, b, c>> : c \in 0 .. SkipSpace(t, e + a + b) - (e + a + b)} :
                     b \in {0} \cup (IF e + a <= Len(t) /\ t[e + a] \in {":", "\n"}
                                     THEN {1} ELSE {})} :
              a \in 0 .. SkipSpace(t, e) - e}

\* the order in which the greedy parts are tried: more characters first
TriedBefore(x, y) ==
    \/ x[1] > y[1]
    \/ x[1] = y[1] /\ x[2] > y[2]
    \/ x[1] = y[1] /\ x[2] = y[2] /\ x[3] > y[3]

\* group 1 of the match whose word stands at h, as [found, from, to]:
\* (.+?) starts behind the separators and ends before the first position
\* at which the lookahead holds, and is not empty
AbstractGroup(t, h) ==
    LET e == h + 8
        ends == {j \in AbstractEnds(t) : j > e}
        ok == IF ends = {} THEN {}
              ELSE {abc \in Separators(t, e) :
                       \E j \in ends : j > e + abc[1] + abc[2] + abc[3]}
        best == CHOOSE x \in ok : \A y \in ok \ {x} : TriedBefore(x, y)
        from == e + best[1] + best[2] + best[3]
        to == CHOOSE j \in ends : j > from /\ \A k \in ends : k > from => j <= k
    IN  IF ok = {} THEN [found |-> FALSE, from |-> 0, to |-> 0]
        ELSE [found |-> TRUE, from |-> from, to |-> to - 1]

\* lines 208-215: re.search takes the leftmost match; the value given to
\* abstract, or Absent
InferAbstract(t) ==
    LET hs == {h \in AbstractHeaders(t) : AbstractGroup(t, h).found}
        h == CHOOSE x \in hs : \A y \in hs : x <= y
        g == AbstractGroup(t, h)
        stripped == StripSeq(SubSeq(t, g.from, g.to))
    IN  IF hs = {} THEN Absent
        ELSE SubSeq(stripped, 1, IF Len(stripped) > MAX_ABSTRACT_CHARS
                                 THEN MAX_ABSTRACT_CHARS ELSE Len(stripped))

\* extract_pdf up to line 99
InitMeta ==
    /\ all_blocks \in BlockLists
    /\ result_text = ResultText(all_blocks)
    /\ title = Absent
    /\ authors = Absent
    /\ abstract = Absent
    /\ mpc = "extracted"
    /\ ChunkerIdle
    /\ PromptIdle
    /\ PipelineIdle("meta")

\* pdf_extractor.py lines 184-215, _extract_paper_metadata
ExtractPaperMetadata ==
    /\ mpc = "extracted"
    /\ LET r == InferTitleAuthors(all_blocks)
       IN  /\ title' = r.title
           /\ authors' = r.authors
    /\ abstract' = InferAbstract(result_text)
    /\ mpc' = "inferred"
    /\ UNCHANGED <<all_blocks, result_text, meta_rest>>

NextMeta == ExtractPaperMetadata

SpecMeta == InitMeta /\ [][NextMeta]_vars

\* the text blocks of page 1
FirstPage == {i \in DOMAIN all_blocks :
                 all_blocks[i].page = 1 /\ all_blocks[i].type = "text"}

\* block i comes before block j in (font size descending, top ascending),
\* blocks equal in both in the order of the document
Before(i, j) ==
    \/ all_blocks[i].font_size > all_blocks[j].font_size
    \/ /\ all_blocks[i].font_size = all_blocks[j].font_size
       /\ \/ all_blocks[i].top < all_blocks[j].top
          \/ all_blocks[i].top = all_blocks[j].top /\ i < j

\* the n-th block of page 1 in that order
Ranked(n) ==
    {i \in FirstPage : Cardinality({j \in FirstPage : Before(j, i)}) = n - 1}

\* C19: title is the stripped text of the page-1 text block with the
\* largest font size, ties broken by the smallest top; it is absent exactly
\* when page 1 has no text block.
C19_TitleIsLargestTopmost ==
    mpc = "inferred" =>
        /\ title = Absent <=> FirstPage = {}
        /\ \A i \in Ranked(1) : title = StripSeq(all_blocks[i].text)

\* two page-1 blocks of the largest size with different texts, the lower
\* one first in the document: the title is the text of the upper one
C19_Witness ==
    /\ mpc = "inferred"
    /\ \E i, j \in FirstPage :
          /\ i < j
          /\ all_blocks[i].font_size = all_blocks[j].font_size
          /\ all_blocks[i].top > all_blocks[j].top
          /\ all_blocks[i].text # all_blocks[j].text
          /\ j \in Ranked(1)
          /\ title = all_blocks[j].text

\* a character of a word
IsWordChar(c) == IsDigit(c) \/ Lower(c) \in {LowerCase[i] : i \in DOMAIN LowerCase}

\* the word "and", in any letter case, stands in t
HasWordAnd(t) ==
    \E i \in 1 .. Len(t) - 2 :
        /\ LowerSeq(SubSeq(t, i, i + 2)) = <<"a", "n", "d">>
        /\ i = 1 \/ ~IsWordChar(t[i - 1])
        /\ i + 2 = Len(t) \/ ~IsWordChar(t[i + 3])

\* C20: authors is the stripped text of the second block in the order if
\* and only if that text contains a comma or the word "and" in any letter
\* case; otherwise, and with fewer than two page-1 text blocks, it is absent.
C20_AuthorsIffCommaOrAnd ==
    mpc = "inferred" =>
        /\ Cardinality(FirstPage) < 2 => authors = Absent
        /\ \A i \in Ranked(2) :
              LET second == StripSeq(all_blocks[i].text)
              IN  IF Contains(second, <<",">>) \/ HasWordAnd(second)
                  THEN authors = second
                  ELSE authors = Absent

\* C21 as stated: with no text block on page 1, title, authors and abstract
\* are all absent, whatever the later pages contain.
C21_AllAbsentWithoutFirstPage ==
    (mpc = "inferred" /\ FirstPage = {}) =>
        /\ title = Absent
        /\ authors = Absent
        /\ abstract = Absent

\* some text block of the document holds the word "abstract", in any letter
\* case
HasAbstractWord ==
    \E i \in DOMAIN all_blocks :
        Contains(LowerSeq(all_blocks[i].text), <<"a", "b", "s", "t", "r", "a", "c", "t">>)

\* C21 amended: with no text block on page 1, title and authors are absent
\* and nothing is raised (the call ends); abstract is absent too when no
\* block of the later pages holds the word "abstract"; otherwise it is
\* what the abstract pattern finds in the text of the later pages.
C21_TitleAuthorsAbsentWithoutFirstPage ==
    (mpc = "inferred" /\ FirstPage = {}) =>
        /\ title = Absent
        /\ authors = Absent
        /\ ~HasAbstractWord => abstract = Absent

\* a document whose page 1 has no text block and whose page 2 has two, one
\* of them the opener of a numbered section: all three fields are absent
C21_Witness ==
    /\ mpc = "inferred"
    /\ FirstPage = {}
    /\ Len(all_blocks) >= 2
    /\ \E i \in DOMAIN all_blocks : all_blocks[i].text = <<"1", ".">>
    /\ title = Absent /\ authors = Absent /\ abstract = Absent

(***************************************************************************)
(* The dominant font size of a block (pdf_extractor.py lines 117-123).     *)
(***************************************************************************)
\* sizes.count(x)
Count(seq, x) == Cardinality({i \in DOMAIN seq : seq[i] = x})

\* the elements of set(sizes) whose count is the largest
Modes(seq) ==
    {seq[i] : i \in {i \in DOMAIN seq :
                        \A j \in DOMAIN seq : Count(seq, seq[j]) <= Count(seq, seq[i])}}

SpanSizes == {8, 10, 12, 16}

SizeLists == UNION {[1 .. n -> SpanSizes] : n \in 0 .. MaxSpans}

\* lines 119-122: sizes is filled from the spans of the lines
InitFont ==
    /\ sizes \in SizeLists
    /\ dominant = 0
    /\ fpc = "collected"
    /\ ChunkerIdle
    /\ PromptIdle
    /\ PipelineIdle("font")

\* line 123: max(set(sizes), key=sizes.count) if sizes else 12.  max
\* returns the first element of largest count in the iteration order of the
\* set; that order is not the order of sizes and is left open by the
\* language, so any of the elements of largest count can be the result
GetDominantFontSize ==
    /\ fpc = "collected"
    /\ IF sizes = <<>>
       THEN dominant' = DEFAULT_FONT_SIZE
       ELSE dominant' \in Modes(sizes)
    /\ fpc' = "returned"
    /\ UNCHANGED <<sizes, font_rest>>

NextFont == GetDominantFontSize

SpecFont == InitFont /\ [][NextFont]_vars

\* the size of largest count that is met first when the spans are scanned
\* in order
FirstMode(seq) ==
    seq[CHOOSE i \in DOMAIN seq :
            /\ seq[i] \in Modes(seq)
            /\ \A j \in 1 .. i - 1 : seq[j] \notin Modes(seq)]

\* C22: the dominant font size is the size that occurs most often among the
\* spans, of several such sizes the one met first in the order of the
\* spans, and 12 for a block without span.
C22_FirstMostFrequentSize ==
    fpc = "returned" =>
        dominant = IF sizes = <<>> THEN 12 ELSE FirstMode(sizes)

\* content of n characters
Content(n) == [i \in 1 .. n |-> "c"]

\* the contents around the cut at 200 characters
LongContents == {Content(MAX_TABLE_CONTENT), Content(MAX_TABLE_CONTENT + 1)}

\* n tables, table i on page i + 1 with one character of content; table k,
\* if any, has the long content c
TableList(n, k, c) ==
    [i \in 1 .. n |-> [page |-> i + 1, content |-> IF i = k THEN c ELSE <<"c">>]]

\* the numbers of tables around the limit of 10, and none or one
TableCounts == {0, 1} \cup (MAX_TABLE_ROWS - 1 .. MaxTables)

TableLists ==
    {TableList(n, 0, <<>>) : n \in TableCounts}
    \cup UNION {{TableList(n, k, c) :
                    k \in {1, MAX_TABLE_ROWS, n} \cap (1 .. n), c \in LongContents} :
                 n \in TableCounts}

\* the papers extract_pdf can hand over: a field that was not found is None,
\* a title or an abstract can be the empty string
Papers ==
    [title : {Absent, <<>>, <<"T">>}, filename : {<<"f.pdf">>},
     authors : {Absent, <<"A">>}, doi : {Absent, <<"10.1/d">>},
     arxiv_id : {Absent, <<"2101.00001">>}, page_count : {3},
     abstract : {Absent, <<>>, <<"a">>}, text : {<<"t">>},
     tables : TableLists, figures : {<<>>, <<"fig", "fig">>}]

InitFormat ==
    /\ fm_paper \in Papers
    /\ formatted = <<>>
    /\ ChunkerIdle
    /\ PromptIdle
    /\ PipelineIdle("format")

\* one call of format_paper_for_analysis(fm_paper); the paper is formatted
\* once by process_pdf or run_analysis and can be formatted again
FormatPaper ==
    /\ fm_paper # <<>>
    /\ Len(formatted) < MaxFormats
    /\ formatted' = Append(formatted, format_paper_for_analysis(fm_paper))
    /\ UNCHANGED <<fm_paper, format_rest>>

NextFormat == FormatPaper

SpecFormat == InitFormat /\ [][NextFormat]_vars

\* the tokens that open the parts, in the order the claim gives
PartMarkers ==
    <<"# ", "**Authors:** ", "**DOI:** ", "**arXiv:** ", "**Pages:** ",
      "## Abstract", "## Full Text", "## Detected Tables", "**Table ",
      "## Figures: ">>

Occurrences(out, tok) == {i \in DOMAIN out : out[i] = tok}

\* the tokens after position i up to the end of that line
RestOfLine(out, i) ==
    LET ends == {j \in i + 1 .. Len(out) : out[j] = "\n"}
        last == IF ends = {} THEN Len(out)
                ELSE (CHOOSE j \in ends : \A k \in ends : j <= k) - 1
    IN  SubSeq(out, i + 1, last)

\* the table rows of the output, in order: what follows "):** " on its line
ListedContents(out) ==
    LET at == Occurrences(out, "):** ")
        nth(k) == CHOOSE i \in at : Cardinality({j \in at : j < i}) = k - 1
    IN  [k \in 1 .. Cardinality(at) |-> RestOfLine(out, nth(k))]

InFixedOrder(out) ==
    \A a, b \in DOMAIN PartMarkers :
        a < b => \A i \in Occurrences(out, PartMarkers[a]) :
                     \A j \in Occurrences(out, PartMarkers[b]) : i < j

\* the output has its parts in the order of PartMarkers, the abstract
\* section exactly when the paper has an abstract, the figure count exactly
\* when it has figures, and the summaries of the first 10 tables at most,
\* each with the first 200 characters of its content at most
WellFormed(out, paper) ==
    /\ out[1] = "# "
    /\ InFixedOrder(out)
    /\ Occurrences(out, "**Pages:** ") # {}
    /\ Occurrences(out, "## Full Text") # {}
    /\ Occurrences(out, "## Abstract") # {} <=> Truthy(paper.abstract)
    /\ Occurrences(out, "## Figures: ") # {} <=> paper.figures # <<>>
    /\ Cardinality(Occurrences(out, "**Table ")) <= 10
    /\ LET listed == ListedContents(out)
       IN  /\ Len(listed) = Cardinality(Occurrences(out, "**Table "))
           /\ Len(listed) <= Len(paper.tables)
           /\ \A k \in DOMAIN listed :
                /\ Len(listed[k]) <= 200
                /\ listed[k] = FirstN(paper.tables[k].content, 200)

\* C23: the output has its parts in the order header, authors, DOI, arXiv
\* ID, page count, abstract section (only for a paper with an abstract),
\* full-text section, table summaries, figure count (only for a paper with
\* figures); it lists the first 10 tables at most, each with 200 characters
\* of content at most; the calls with the same paper return the same output.
C23_FixedOrderAndLimits ==
    /\ \A c \in DOMAIN formatted : WellFormed(formatted[c], fm_paper)
    /\ \A c, d \in DOMAIN formatted : formatted[c] = formatted[d]

\* C23: a paper with more than 10 tables, one of the first 10 of them with
\* more than 200 characters of content, was formatted twice
C23_Witness ==
    /\ Len(formatted) = 2
    /\ Len(fm_paper.tables) > 10
    /\ \E k \in 1 .. 10 : Len(fm_paper.tables[k].content) > 200
    /\ Truthy(fm_paper.abstract)
    /\ fm_paper.figures # <<>>

(***************************************************************************)
(* check_rate_limit (src/database.py, lines 309-333) as upload calls it    *)
(* (src/web_app.py, lines 867-871).  Flask serves each request on a        *)
(* thread of its own and every call opens a connection of its own; the     *)
(* SELECT runs outside a transaction, the INSERT in one of its own.        *)
(***************************************************************************)

MinutesPerHour == 60

\* datetime.isoformat(), as far as the model's clock goes: the hour field
\* and the minute field
IsoFormat(minutes) == <<minutes \div MinutesPerHour, minutes % MinutesPerHour>>

\* line 315: datetime.now().isoformat()[:13], the fields up to the hour
HourPrefix(iso) == SubSeq(iso, 1, 1)

\* a > b of two strings of fixed-width fields
RECURSIVE StrGreater(_, _)
StrGreater(a, b) ==
    IF a = <<>> THEN FALSE
    ELSE IF b = <<>> THEN TRUE
    ELSE IF Head(a) # Head(b) THEN Head(a) > Head(b)
    ELSE StrGreater(Tail(a), Tail(b))

\* lines 316-321: SELECT COUNT(*) ... WHERE ip_address = ? AND action = ?
\* AND timestamp > ?
CountActions(tbl, ip, act, since) ==
    Cardinality({i \in DOMAIN tbl :
                    /\ tbl[i].ip_address = ip
                    /\ tbl[i].action = act
                    /\ StrGreater(tbl[i].timestamp, since)})

RateThreads == 1 .. MaxRateThreads

Ips == {"10.0.0.1", "10.0.0.2"}

NotInCall == [at |-> "none", ip |-> "none", count |-> 0]

InitRate ==
    /\ rate_limits = <<>>
    /\ now = 0
    /\ max_per_hour \in 1 .. MaxPerHour
    /\ rl_thread = [t \in RateThreads |-> NotInCall]
    /\ rl_returns = <<>>
    /\ ChunkerIdle
    /\ PromptIdle
    /\ PipelineIdle("rate")

CallsBegun ==
    Len(rl_returns) + Cardinality({t \in RateThreads : rl_thread[t].at # "none"})

\* lines 311-321: thread t enters check_rate_limit(ip, "upload", ...) and
\* counts the rows
RateCount(t, ip) ==
    /\ rl_thread[t].at = "none"
    /\ CallsBegun < MaxChecks
    /\ rl_thread' = [rl_thread EXCEPT ![t] =
            [at |-> "counted", ip |-> ip,
             count |-> CountActions(rate_limits, ip, "upload",
                                    HourPrefix(IsoFormat(now)))]]
    /\ UNCHANGED <<rate_limits, now, max_per_hour, rl_returns, rate_rest>>

\* lines 323-333: thread t returns False, or records the action and
\* returns True
RateDecide(t) ==
    /\ rl_thread[t].at = "counted"
    /\ IF rl_thread[t].count >= max_per_hour
       THEN /\ rl_returns' = Append(rl_returns,
                    [ip |-> rl_thread[t].ip, allowed |-> FALSE, minute |-> now])
            /\ UNCHANGED rate_limits
       ELSE /\ rate_limits' = Append(rate_limits,
                    [ip_address |-> rl_thread[t].ip, action |-> "upload",
                     timestamp |-> IsoFormat(now)])
            /\ rl_returns' = Append(rl_returns,
                    [ip |-> rl_thread[t].ip, allowed |-> TRUE, minute |-> now])
    /\ rl_thread' = [rl_thread EXCEPT ![t] = NotInCall]
    /\ UNCHANGED <<now, max_per_hour, rate_rest>>

\* time passes
ClockTick ==
    /\ max_per_hour # 0
    /\ now + ClockStep <= MaxMinutes
    /\ now' = now + ClockStep
    /\ UNCHANGED <<rate_limits, max_per_hour, rl_thread, rl_returns, rate_rest>>

NextRate ==
    \/ \E t \in RateThreads, ip \in Ips : RateCount(t, ip)
    \/ \E t \in RateThreads : RateDecide(t)
    \/ ClockTick

SpecRate == InitRate /\ [][NextRate]_vars

\* the calls for ip that returned True less than an hour ago
AllowedInLastHour(ip) ==
    {i \in DOMAIN rl_returns :
        /\ rl_returns[i].ip = ip
        /\ rl_returns[i].allowed
        /\ now - rl_returns[i].minute < MinutesPerHour}

\* C24: for each address, at most max_per_hour of the calls of
\* check_rate_limit made within the last hour returned True, whatever the
\* interleaving of the request threads.
C24_AtMostMaxPerHour ==
    \A ip \in Ips : Cardinality(AllowedInLastHour(ip)) <= max_per_hour

(***************************************************************************)
(* The web server: upload (src/web_app.py, lines 866-901) and the thread   *)
(* it starts, run_analysis (lines 79-193).  A step of a thread is the      *)
(* code between two accesses to what the threads share: the dict           *)
(* active_analyses, table analyses and the files of UPLOAD_DIR.            *)
(***************************************************************************)

\* file names as stem and suffix
Filenames == {<<"a", ".pdf">>, <<"b", ".pdf">>, <<"a", ".txt">>}

\* line 875: file.filename.endswith('.pdf')
EndsWithPdf(filename) == filename[Len(filename)] = ".pdf"

\* pdf_path.stem
Stem(filename) == SubSeq(filename, 1, Len(filename) - 1)

\* line 894: f"{datetime.now().strftime('%Y%m%d_%H%M%S')}_{pdf_path.stem}"
AnalysisId(sec, filename) == <<sec>> \o Stem(filename)

AnalysisIds ==
    {AnalysisId(sec, f) : sec \in 0 .. MaxSeconds, f \in {g \in Filenames : EndsWithPdf(g)}}

NoEntry == [status |-> "none", content |-> "none", error |-> "none"]

NoRow == [status |-> "none", content |-> "none", error_message |-> "none"]

InitWeb ==
    /\ active_analyses = [id \in AnalysisIds |-> NoEntry]
    /\ analyses = [id \in AnalysisIds |-> NoRow]
    /\ upload_dir = [f \in Filenames |-> 0]
    /\ web_threads = <<>>
    /\ web_second = 0
    /\ ChunkerIdle
    /\ PromptIdle
    /\ PipelineIdle("web")

\* lines 866-901: an upload that passes the checks: the file is saved under
\* its own name, the analysis id is made of the second and the stem, and a
\* thread is started
Upload(filename) ==
    /\ web_second >= 0
    /\ Len(web_threads) < MaxUploads
    /\ EndsWithPdf(filename)
    /\ upload_dir' = [upload_dir EXCEPT ![filename] = Len(web_threads) + 1]
    /\ web_threads' = Append(web_threads,
            [analysis_id |-> AnalysisId(web_second, filename), pdf_path |-> filename,
             at |-> "started", read |-> 0, raised |-> "none"])
    /\ UNCHANGED <<active_analyses, analyses, web_second, web_rest>>

Step(t, at, raised) ==
    [web_threads EXCEPT ![t] = [@ EXCEPT !.at = at, !.raised = raised]]

\* lines 81-87
BeginAnalysis(t) ==
    /\ web_threads[t].at = "started"
    /\ active_analyses' = [active_analyses EXCEPT ![web_threads[t].analysis_id] =
            [status |-> "extracting", content |-> "", error |-> "none"]]
    /\ web_threads' = Step(t, "extract", "none")
    /\ UNCHANGED <<analyses, upload_dir, web_second, web_rest>>

\* lines 89-117: extract_pdf reads the file at pdf_path; it, save_paper or
\* the citation steps can raise
ExtractAndSavePaper(t) ==
    /\ web_threads[t].at = "extract"
    /\ \E raised \in {"none", "extraction failed", "paper not saved"} :
          web_threads' = [web_threads EXCEPT ![t] =
              [@ EXCEPT !.at = IF raised = "none" THEN "record" ELSE "except",
                        !.read = upload_dir[web_threads[t].pdf_path],
                        !.raised = raised]]
    /\ UNCHANGED <<active_analyses, analyses, upload_dir, web_second, web_rest>>

\* lines 119-126: save_analysis inserts the row; analysis_id is UNIQUE
SaveAnalysis(t) ==
    /\ web_threads[t].at = "record"
    /\ IF analyses[web_threads[t].analysis_id] # NoRow
       THEN /\ web_threads' = Step(t, "except", "IntegrityError")
            /\ UNCHANGED analyses
       ELSE /\ analyses' = [analyses EXCEPT ![web_threads[t].analysis_id] =
                    [status |-> "analyzing", content |-> "none",
                     error_message |-> "none"]]
            /\ web_threads' = Step(t, "mark", "none")
    /\ UNCHANGED <<active_analyses, upload_dir, web_second, web_rest>>

\* line 128
MarkAnalyzing(t) ==
    /\ web_threads[t].at = "mark"
    /\ active_analyses' = [active_analyses EXCEPT ![web_threads[t].analysis_id] =
            [@ EXCEPT !.status = "analyzing"]]
    /\ web_threads' = Step(t, "query", "none")
    /\ UNCHANGED <<analyses, upload_dir, web_second, web_rest>>

\* lines 130-156: the query streams the content into the entry, or raises
RunQuery(t) ==
    /\ web_threads[t].at = "query"
    /\ \/ /\ active_analyses' = [active_analyses EXCEPT ![web_threads[t].analysis_id] =
                [@ EXCEPT !.content = "text"]]
          /\ web_threads' = Step(t, "update", "none")
       \/ /\ web_threads' = Step(t, "except", "query failed")
          /\ UNCHANGED active_analyses
    /\ UNCHANGED <<analyses, upload_dir, web_second, web_rest>>

\* database.py lines 207-243: UPDATE analyses SET ... WHERE analysis_id = ?
\* changes the row of that id, if there is one
update_analysis(tbl, id, status, content, error_message) ==
    IF tbl[id] = NoRow THEN tbl
    ELSE [tbl EXCEPT ![id] =
            [status |-> status,
             content |-> IF content # "none" THEN content ELSE @.content,
             error_message |-> IF error_message # "none" THEN error_message
                               ELSE @.error_message]]

\* lines 158-180: the markdown file is written and the row updated
UpdateComplete(t) ==
    /\ web_threads[t].at = "update"
    /\ analyses' = update_analysis(analyses, web_threads[t].analysis_id,
                                   "complete", "text", "none")
    /\ web_threads' = Step(t, "finish", "none")
    /\ UNCHANGED <<active_analyses, upload_dir, web_second, web_rest>>

\* lines 182-184
MarkComplete(t) ==
    /\ web_threads[t].at = "finish"
    /\ active_analyses' = [active_analyses EXCEPT ![web_threads[t].analysis_id] =
            [@ EXCEPT !.status = "complete", !.content = "text"]]
    /\ web_threads' = Step(t, "ended", "none")
    /\ UNCHANGED <<analyses, upload_dir, web_second, web_rest>>

\* lines 186-188
MarkError(t) ==
    /\ web_threads[t].at = "except"
    /\ active_analyses' = [active_analyses EXCEPT ![web_threads[t].analysis_id] =
            [@ EXCEPT !.status = "error", !.error = web_threads[t].raised]]
    /\ web_threads' = Step(t, "except_update", web_threads[t].raised)
    /\ UNCHANGED <<analyses, upload_dir, web_second, web_rest>>

\* lines 189-193
UpdateError(t) ==
    /\ web_threads[t].at = "except_update"
    /\ analyses' = update_analysis(analyses, web_threads[t].analysis_id,
                                   "error", "none", web_threads[t].raised)
    /\ web_threads' = Step(t, "ended", web_threads[t].raised)
    /\ UNCHANGED <<active_analyses, upload_dir, web_second, web_rest>>

\* a second passes
SecondTick ==
    /\ web_second >= 0
    /\ web_second < MaxSeconds
    /\ web_second' = web_second + 1
    /\ UNCHANGED <<active_analyses, analyses, upload_dir, web_threads, web_rest>>

RunAnalysisStep(t) ==
    \/ BeginAnalysis(t)
    \/ ExtractAndSavePaper(t)
    \/ SaveAnalysis(t)
    \/ MarkAnalyzing(t)
    \/ RunQuery(t)
    \/ UpdateComplete(t)
    \/ MarkComplete(t)
    \/ MarkError(t)
    \/ UpdateError(t)

NextWeb ==
    \/ \E filename \in Filenames : Upload(filename)
    \/ \E t \in DOMAIN web_threads : RunAnalysisStep(t)
    \/ SecondTick

SpecWeb == InitWeb /\ [][NextWeb]_vars

\* the moves of a status the claim allows
StatusMoves ==
    {<<"none", "extracting">>, <<"extracting", "analyzing">>,
     <<"analyzing", "complete">>, <<"extracting", "error">>,
     <<"analyzing", "error">>}

\* C25: the in-memory status of an analysis only moves extracting ->
\* analyzing -> complete, or from extracting or analyzing to error; once it
\* is complete or error it never changes again.
C25_StatusOnlyMovesForward ==
    [][\A id \in AnalysisIds :
          \/ active_analyses'[id].status = active_analyses[id].status
          \/ <<active_analyses[id].status, active_analyses'[id].status>>
                \in StatusMoves]_vars

\* the threads whose run_analysis has returned
Ended == {t \in DOMAIN web_threads : web_threads[t].at = "ended"}

\* C26: when an analysis has ended, table analyses holds a row for its
\* analysis_id with the status the entry in memory has; an analysis that
\* failed is recorded with status error and its error message.
C26_RowMatchesFinalStatus ==
    \A t \in Ended :
        LET id == web_threads[t].analysis_id
        IN  /\ active_analyses[id].status \in {"complete", "error"}
            /\ analyses[id].status = active_analyses[id].status
            /\ web_threads[t].raised # "none" =>
                  analyses[id].error_message = web_threads[t].raised

\* the threads whose analysis is still in flight
InFlight == {t \in DOMAIN web_threads : web_threads[t].at # "ended"}

\* C27: the analyses in flight have analysis ids and upload paths distinct
\* from each other.
C27_DistinctIdAndPath ==
    \A t, u \in InFlight :
        t # u => /\ web_threads[t].analysis_id # web_threads[u].analysis_id
                 /\ web_threads[t].pdf_path # web_threads[u].pdf_path

(***************************************************************************)
(* save_paper (src/database.py, lines 115-147) called by the threads that  *)
(* upload starts (src/web_app.py, lines 897-899).  Every call opens a      *)
(* connection of its own (lines 100-108); the SELECT and the INSERT are    *)
(* two statements with nothing that holds other callers off in between.    *)
(***************************************************************************)

SaveThreads == 1 .. MaxSaveThreads

NotSaving == [at |-> "none", file |-> "none", paper_id |-> 0, raised |-> FALSE]

InitSave ==
    /\ papers = <<>>
    /\ citation_rows = <<>>
    /\ last_call = [op |-> "none", file |-> "none", paper_id |-> 0,
                    existed |-> FALSE, before |-> <<>>, raised |-> FALSE]
    /\ calls = 0
    /\ pdf_results = <<>>
    /\ save_threads = [t \in SaveThreads |-> NotSaving]
    /\ ChunkerIdle
    /\ PromptIdle
    /\ PipelineIdle("store")

\* database.py lines 128-135: thread t enters save_paper for file f, looks
\* the hash up and returns the id of the row found
SavePaperSelect(t, f) ==
    /\ save_threads # <<>>
    /\ save_threads[t].at = "none"
    /\ LET existing == SelectByHash(papers, compute_file_hash(f))
       IN  save_threads' = [save_threads EXCEPT ![t] =
              IF existing # {}
              THEN [at |-> "returned", file |-> f,
                    paper_id |-> papers[CHOOSE i \in existing : TRUE].id,
                    raised |-> FALSE]
              ELSE [at |-> "selected", file |-> f, paper_id |-> 0,
                    raised |-> FALSE]]
    /\ UNCHANGED <<papers, citation_rows, last_call, calls, pdf_results, store_rest>>

\* database.py lines 137-147: thread t inserts the row
SavePaperInsert(t) ==
    /\ save_threads # <<>>
    /\ save_threads[t].at = "selected"
    /\ LET f == save_threads[t].file
           r == InsertPaper(papers, f, compute_file_hash(f))
       IN  /\ papers' = r.papers
           /\ save_threads' = [save_threads EXCEPT ![t] =
                 [at |-> "returned", file |-> f, paper_id |-> r.paper_id,
                  raised |-> r.raised]]
    /\ UNCHANGED <<citation_rows, last_call, calls, pdf_results, store_rest>>

NextSave ==
    \/ \E t \in SaveThreads, f \in Files : SavePaperSelect(t, f)
    \/ \E t \in SaveThreads : SavePaperInsert(t)

SpecSave == InitSave /\ [][NextSave]_vars

\* C28: two calls of save_paper with the same file_hash that run at the
\* same time both return the same paper id and neither raises.
C28_ConcurrentSavesAgree ==
    \A t, u \in DOMAIN save_threads :
        /\ save_threads[t].at = "returned"
        /\ save_threads[u].at = "returned"
        /\ compute_file_hash(save_threads[t].file)
              = compute_file_hash(save_threads[u].file)
        => /\ ~save_threads[t].raised
           /\ save_threads[t].paper_id = save_threads[u].paper_id

\* the identifiers stored for paper_id, in the order of the rows
StoredIdents(paper_id) ==
    SelectSeq(citation_rows, LAMBDA row : row.paper_id = paper_id)

\* C29: the citation rows of a paper hold each identifier at most once,
\* after any sequence of process_pdf calls and run_analysis runs.
C29_NoDuplicateCitationRows ==
    \A p \in DOMAIN papers :
        \A i, j \in DOMAIN StoredIdents(papers[p].id) :
            i # j => StoredIdents(papers[p].id)[i].ident
                        # StoredIdents(papers[p].id)[j].ident

\* C30: a call of process_pdf that finds the hash of its file stored
\* returns the 'text' the first processing of that file returned.
C30_SameTextOnCacheHit ==
    \A i, j \in DOMAIN pdf_results :
        /\ i < j
        /\ ~pdf_results[i].cached
        /\ pdf_results[j].cached
        /\ FileBytes(pdf_results[i].file) = FileBytes(pdf_results[j].file)
        => pdf_results[j].text = pdf_results[i].text

=============================================================================
